---- MODULE Spec2Model ----
(***************************************************************************)
(* Model of the talking-avatar animation core of plivo-demo:               *)
(*   - the viseme timeline builder and sampler (utils/visemeTimeline),     *)
(*   - the lip-sync engine (hooks/useLipSync),                             *)
(*   - the gesture/animation state machine (hooks/useAnimationState).      *)
(* Times are integers in milliseconds; the source uses seconds as floats   *)
(* (0.05 s = 50, 0.01 s = 10).                                             *)
(***************************************************************************)
EXTENDS Integers, Sequences, FiniteSets, TLC

VARIABLES
    \* ---- timeline functions ----
    alignment,      \* AlignmentData given to generateVisemeTimeline
    filledCues,     \* the VisemeCue[] it returned
    sampled,        \* last result of getVisemeAtTime on filledCues
    tpc,            \* position of the timeline run: "input" | "built" | "sampled" | "searched"
    probe,          \* last call of a numeric function of the lip-sync loop:
                    \* its arguments and what it returned
    \* ---- clock ----
    now,            \* performance.now() and audioContext.currentTime, in ms
    \* ---- useLipSync: React state ----
    isPlaying,
    amplitude,      \* 0..100, in units of 0.01
    playbackTime,   \* ms
    gestureTriggers,
    mouthShape,
    mouthOpenness,  \* 0..1, in units of 0.001
    currentViseme,
    jawRotation,    \* in units of 0.0001
    \* ---- useLipSync: refs ----
    isPlayingRef,
    smoothedAmplitudeRef,
    previousJawRotationRef,
    visemeCuesRef,
    startTimeRef,
    sourceRef,      \* index into sources, 0 for null
    lipFrameRef,    \* animationFrameRef of useLipSync: the frame requested
                    \* for analyzeAudio, "none" | "requested" | "due"
    \* ---- useLipSync: audio sources and the playAudio call in flight ----
    sources,        \* every AudioBufferSourceNode created, with its state
    playPc,         \* "idle" | "decoding" (playAudio suspended at an await)
    playArg,        \* the SpeechResult of the playAudio call in flight
    \* ---- useAnimationState: React state ----
    animationState,
    activeGesture,
    preset,
    gestureProgress,
    \* ---- useAnimationState: refs ----
    gestureQueueRef,
    gestureStartTimeRef,
    lastTwitchTimeRef,
    processedTriggersRef,
    gestureFrameRef, \* the frame requested for updateGesture:
                    \* "requested" | "due"
    \* ---- bookkeeping of the run ----
    steps,          \* clock steps taken
    apiCalls,       \* calls the application made: playAudio, stopAudio,
                    \* queueGesture, triggerRandomTwitch, setPreset
    lastOp,         \* the operation of the last step and what it requested
    firedLog,       \* triggers fired since the last playAudio call, in order
    leftWindow,     \* fired trigger times whose window playback has left since
    playLog         \* whether stopAudio stopped a playing utterance, whether
                    \* the last playAudio was called after that, and the
                    \* number of samples analyzeAudio produced since the start

timelineVars == <<alignment, filledCues, sampled, tpc, probe>>

lipState ==
    <<isPlaying, amplitude, playbackTime, gestureTriggers, mouthShape,
      mouthOpenness, currentViseme, jawRotation>>

lipRefs ==
    <<isPlayingRef, smoothedAmplitudeRef, previousJawRotationRef,
      visemeCuesRef, startTimeRef, sourceRef, lipFrameRef>>

audioVars == <<sources, playPc, playArg>>

gestureVars ==
    <<animationState, activeGesture, preset, gestureProgress, gestureQueueRef,
      gestureStartTimeRef, lastTwitchTimeRef, processedTriggersRef,
      gestureFrameRef>>

bookVars ==
    <<steps, apiCalls, lastOp, firedLog, leftWindow, playLog>>

engineVars == <<now, lipState, lipRefs, audioVars, gestureVars, bookVars>>

vars == <<timelineVars, engineVars>>

-----------------------------------------------------------------------------
(* Bounds *)

\* longest alignment input (number of characters)
MaxLen == 3

\* clock steps of a run of the engine
MaxSteps == 5

\* playAudio calls of a run
MaxPlays == 2

\* queueGesture / triggerRandomTwitch calls made from outside the hook
MaxApiCalls == 2

\* playAudio / stopAudio calls of a run that makes no other call
MaxPlaybackCalls == 3

\* playAudio / stopAudio calls of a run that samples one utterance
MaxSamplingCalls == 2

\* queueGesture calls of a run whose frames keep coming, and the frames during
\* which they are made
MaxLiveCalls == 3
MaxRequestSteps == 2

\* calls of queueGesture in the specification with lagging frame timestamps
MaxLaggedCalls == 3

\* setPreset / triggerRandomTwitch / queueGesture calls of a run without
\* playback
MaxTwitchCalls == 4

\* progress values given to the jaw interpolation: k / ProgressSteps
ProgressSteps == 20

\* largest amplitude given to the amplitude fallback (the analyser's scale)
MaxAmplitude == 100

-----------------------------------------------------------------------------
(* Viseme table: utils/visemeMapper *)

\* `undefined` entry of a timing array
Undef == -1

\* `null` nextViseme
Null == "null"

Abs(x) == IF x < 0 THEN 0 - x ELSE x

\* String.prototype.toLowerCase on the characters used here
ToLower(c) ==
    CASE c = "A" -> "a"
      [] c = "I" -> "i"
      [] c = "H" -> "h"
      [] OTHER -> c

KnownChars ==
    {"p", "b", "m", "f", "v", "t", "d", "k", "g", "c", "q", "x", "j", "s", "z",
     "n", "l", "r", "a", "e", "i", "o", "u", "w", "y", "h",
     " ", ".", ",", "!", "?", "-", "\"", "'", "\n", "\t"}

CHAR_TO_VISEME ==
    [c \in KnownChars |->
        CASE c \in {"p", "b", "m"} -> "PP"
          [] c \in {"f", "v"} -> "FF"
          [] c \in {"t", "d"} -> "DD"
          [] c \in {"k", "g", "c", "q", "x"} -> "kk"
          [] c = "j" -> "CH"
          [] c \in {"s", "z"} -> "SS"
          [] c \in {"n", "l"} -> "nn"
          [] c = "r" -> "RR"
          [] c = "a" -> "aa"
          [] c = "e" -> "E"
          [] c \in {"i", "y"} -> "I"
          [] c = "o" -> "O"
          [] c \in {"u", "w"} -> "U"
          [] OTHER -> "sil"]

charToViseme(char) ==
    LET lower == ToLower(char)
    IN  IF lower \in KnownChars THEN CHAR_TO_VISEME[lower] ELSE "sil"

\* the keys of DIGRAPH_TO_VISEME, as pairs of characters
Digraphs ==
    {<<"t", "h">>, <<"s", "h">>, <<"c", "h">>, <<"z", "h">>, <<"n", "g">>,
     <<"p", "h">>, <<"w", "h">>, <<"c", "k">>, <<"q", "u">>,
     <<"e", "e">>, <<"e", "a">>, <<"o", "o">>, <<"o", "u">>, <<"o", "w">>,
     <<"a", "i">>, <<"a", "y">>, <<"o", "i">>, <<"o", "y">>, <<"a", "u">>,
     <<"a", "w">>}

DIGRAPH_TO_VISEME ==
    [d \in Digraphs |->
        CASE d = <<"t", "h">> -> "TH"
          [] d \in {<<"s", "h">>, <<"c", "h">>, <<"z", "h">>} -> "CH"
          [] d \in {<<"n", "g">>, <<"c", "k">>, <<"q", "u">>} -> "kk"
          [] d = <<"p", "h">> -> "FF"
          [] d \in {<<"w", "h">>, <<"o", "o">>} -> "U"
          [] d \in {<<"e", "e">>, <<"e", "a">>} -> "I"
          [] d \in {<<"o", "u">>, <<"o", "w">>, <<"o", "i">>, <<"o", "y">>} -> "O"
          [] d \in {<<"a", "i">>, <<"a", "y">>} -> "E"
          [] d \in {<<"a", "u">>, <<"a", "w">>} -> "aa"]

\* getVisemeAtIndex(text, index), with text a sequence of characters and index
\* counted from 1; a position past the end reads as ''
getVisemeAtIndex(text, index) ==
    LET char == IF index \in 1..Len(text) THEN ToLower(text[index]) ELSE ""
        nextChar == IF index + 1 \in 1..Len(text)
                    THEN ToLower(text[index + 1]) ELSE ""
    IN  IF <<char, nextChar>> \in Digraphs
        THEN [viseme |-> DIGRAPH_TO_VISEME[<<char, nextChar>>],
              consumedDigraph |-> TRUE]
        ELSE IF char \in KnownChars
        THEN [viseme |-> CHAR_TO_VISEME[char], consumedDigraph |-> FALSE]
        ELSE [viseme |-> "sil", consumedDigraph |-> FALSE]

-----------------------------------------------------------------------------
(* Timeline builder: utils/visemeTimeline generateVisemeTimeline *)

\* merge threshold, Math.abs(lastCue.endTime - cue.startTime) < 0.05
MERGE_GAP_MS == 50

\* gap-fill threshold, cue.startTime > prevCue.endTime + 0.01
FILL_GAP_MS == 10

Cue(v, s, e) == [viseme |-> v, startTime |-> s, endTime |-> e]

\* the `continue` guard of the character loop
\* the timing guard skipping only undefined times
InvalidTiming_undefinedOnly(startTime, endTime) ==
    startTime = Undef \/ endTime = Undef

InvalidTiming(startTime, endTime) ==
    startTime = Undef \/ endTime = Undef \/ startTime >= endTime

RECURSIVE RawCuesFrom_digraph(_, _)
\* the character loop looking up digraphs with getVisemeAtIndex
RawCuesFrom_digraph(al, i) ==
    IF i > Len(al.characters) THEN <<>>
    ELSE LET startTime == al.character_start_times_seconds[i]
             endTime == al.character_end_times_seconds[i]
             at == getVisemeAtIndex(al.characters, i)
         IN  IF InvalidTiming(startTime, endTime)
             THEN RawCuesFrom_digraph(al, i + 1)
             ELSE IF at.consumedDigraph
             THEN <<Cue(at.viseme, startTime,
                        al.character_end_times_seconds[i + 1])>>
                  \o RawCuesFrom_digraph(al, i + 2)
             ELSE <<Cue(at.viseme, startTime, endTime)>>
                  \o RawCuesFrom_digraph(al, i + 1)

RECURSIVE RawCuesFrom(_, _)
RawCuesFrom(al, i) ==
    IF i > Len(al.characters) THEN <<>>
    ELSE LET startTime == al.character_start_times_seconds[i]
             endTime == al.character_end_times_seconds[i]
         IN  IF InvalidTiming(startTime, endTime)
             THEN RawCuesFrom(al, i + 1)
             ELSE <<Cue(charToViseme(al.characters[i]), startTime, endTime)>>
                  \o RawCuesFrom(al, i + 1)

\* rawCues after the character loop
RawCues(al) == RawCuesFrom(al, 1)

\* the merge test with an inclusive threshold
Mergeable_inclusive(lastCue, cue) ==
    /\ lastCue.viseme = cue.viseme
    /\ Abs(lastCue.endTime - cue.startTime) <= MERGE_GAP_MS

\* the test of the merge loop on the last merged cue and the next raw cue
Mergeable(lastCue, cue) ==
    /\ lastCue.viseme = cue.viseme
    /\ Abs(lastCue.endTime - cue.startTime) < MERGE_GAP_MS

RECURSIVE MergeFrom(_, _, _)
MergeFrom(rawCues, i, mergedCues) ==
    IF i > Len(rawCues) THEN mergedCues
    ELSE LET cue == rawCues[i]
             n == Len(mergedCues)
         IN  IF n > 0 /\ Mergeable(mergedCues[n], cue)
             THEN MergeFrom(rawCues, i + 1,
                            [mergedCues EXCEPT ![n].endTime = cue.endTime])
             ELSE MergeFrom(rawCues, i + 1, Append(mergedCues, cue))

\* mergedCues after the merge loop
MergeCues(rawCues) == MergeFrom(rawCues, 1, <<>>)

\* the builder without the leading silence
PrependSilence_never(mergedCues) == mergedCues

\* mergedCues.unshift(silence) when the first cue starts after 0
PrependSilence(mergedCues) ==
    IF Len(mergedCues) > 0 /\ mergedCues[1].startTime > 0
    THEN <<Cue("sil", 0, mergedCues[1].startTime)>> \o mergedCues
    ELSE mergedCues

\* the fill test always passing: silence between every two cues
NeedsFill_always(prevCue, cue) == cue.startTime >= prevCue.endTime - MERGE_GAP_MS

\* the fill test with the merge threshold in place of the fill threshold
NeedsFill_wide(prevCue, cue) == cue.startTime > prevCue.endTime + MERGE_GAP_MS

\* the test of the fill loop
NeedsFill(prevCue, cue) == cue.startTime > prevCue.endTime + FILL_GAP_MS

RECURSIVE FillFrom(_, _, _)
FillFrom(mergedCues, i, filled) ==
    IF i > Len(mergedCues) THEN filled
    ELSE LET cue == mergedCues[i]
             n == Len(filled)
         IN  IF n > 0 /\ NeedsFill(filled[n], cue)
             THEN FillFrom(mergedCues, i + 1,
                      Append(Append(filled,
                                    Cue("sil", filled[n].endTime, cue.startTime)),
                             cue))
             ELSE FillFrom(mergedCues, i + 1, Append(filled, cue))

\* a fill loop that also looks ahead and fills the gap after each cue, so
\* that every gap is filled twice
RECURSIVE FillFrom_twice(_, _, _)
FillFrom_twice(mergedCues, i, filled) ==
    IF i > Len(mergedCues) THEN filled
    ELSE LET cue == mergedCues[i]
             n == Len(filled)
             before == IF i > 1 /\ NeedsFill(mergedCues[i - 1], cue)
                       THEN Append(filled,
                                   Cue("sil", mergedCues[i - 1].endTime,
                                       cue.startTime))
                       ELSE filled
             after == IF i < Len(mergedCues) /\ NeedsFill(cue, mergedCues[i + 1])
                      THEN <<cue, Cue("sil", cue.endTime,
                                      mergedCues[i + 1].startTime)>>
                      ELSE <<cue>>
         IN  FillFrom_twice(mergedCues, i + 1, before \o after)

FillGaps_twice(mergedCues) == FillFrom_twice(mergedCues, 1, <<>>)

\* filledCues after the fill loop
FillGaps(mergedCues) == FillFrom(mergedCues, 1, <<>>)

generateVisemeTimeline(al) ==
    IF Len(al.characters) = 0 THEN <<>>
    ELSE FillGaps(PrependSilence(MergeCues(RawCues(al))))

-----------------------------------------------------------------------------
(* Timeline sampler: utils/visemeTimeline getVisemeAtTime *)

\* a progress value elapsed / duration, kept as an exact fraction
Frac(n, d) == [num |-> n, den |-> d]

One == Frac(1, 1)

RECURSIVE FindCueFrom_open(_, _, _)
\* the search with a cue's start time excluded from the cue
FindCueFrom_open(cs, time, i) ==
    IF i > Len(cs) THEN 0
    ELSE IF time > cs[i].startTime /\ time < cs[i].endTime THEN i
    ELSE FindCueFrom_open(cs, time, i + 1)

RECURSIVE FindCueFrom(_, _, _)
\* index of the first cue, from i on, with startTime <= time < endTime; 0 if none
FindCueFrom(cs, time, i) ==
    IF i > Len(cs) THEN 0
    ELSE IF time >= cs[i].startTime /\ time < cs[i].endTime THEN i
    ELSE FindCueFrom(cs, time, i + 1)

VisemeSample(v, p, nx) == [viseme |-> v, progress |-> p, nextViseme |-> nx]

\* the sampler with the elapsed time measured from the start of the timeline
getVisemeAtTime_fromZero(cs, time) ==
    IF Len(cs) = 0 THEN VisemeSample("sil", One, Null)
    ELSE LET i == FindCueFrom(cs, time, 1)
         IN  IF i > 0
             THEN LET duration == cs[i].endTime - cs[i].startTime
                  IN  VisemeSample(cs[i].viseme,
                          IF duration > 0 THEN Frac(time, duration) ELSE One,
                          IF i < Len(cs) THEN cs[i + 1].viseme ELSE Null)
             ELSE IF time >= cs[Len(cs)].endTime
                  THEN VisemeSample("sil", One, Null)
                  ELSE VisemeSample("sil", One, cs[1].viseme)

getVisemeAtTime(cs, time) ==
    IF Len(cs) = 0 THEN VisemeSample("sil", One, Null)
    ELSE LET i == FindCueFrom(cs, time, 1)
         IN  IF i > 0
             THEN LET duration == cs[i].endTime - cs[i].startTime
                      elapsed == time - cs[i].startTime
                  IN  VisemeSample(cs[i].viseme,
                          IF duration > 0 THEN Frac(elapsed, duration) ELSE One,
                          IF i < Len(cs) THEN cs[i + 1].viseme ELSE Null)
             ELSE IF time >= cs[Len(cs)].endTime
                  THEN VisemeSample("sil", One, Null)
                  ELSE VisemeSample("sil", One, cs[1].viseme)

getTimelineDuration(cs) == IF Len(cs) = 0 THEN 0 ELSE cs[Len(cs)].endTime

\* what findCueIndexAtTime returns, and the number of times its loop body ran
Found(index, iterations) == [index |-> index, iterations |-> iterations]

RECURSIVE SearchFrom_inclusive(_, _, _, _, _)
\* the loop with a cue's end time included in the cue
SearchFrom_inclusive(cs, time, low, high, n) ==
    IF low > high THEN Found(0 - 1, n)
    ELSE LET mid == (low + high) \div 2
             cue == cs[mid + 1]
         IN  IF time >= cue.startTime /\ time <= cue.endTime
             THEN Found(mid, n + 1)
             ELSE IF time < cue.startTime
                  THEN SearchFrom_inclusive(cs, time, low, mid - 1, n + 1)
                  ELSE SearchFrom_inclusive(cs, time, mid + 1, high, n + 1)

findCueIndexAtTime_inclusive(cs, time) ==
    IF Len(cs) = 0 THEN Found(0 - 1, 0)
    ELSE SearchFrom_inclusive(cs, time, 0, Len(cs) - 1, 0)

RECURSIVE SearchFrom(_, _, _, _, _)
\* the while loop of findCueIndexAtTime, with the indices of the code (from 0)
SearchFrom(cs, time, low, high, n) ==
    IF low > high THEN Found(0 - 1, n)
    ELSE LET mid == (low + high) \div 2
             cue == cs[mid + 1]
         IN  IF time >= cue.startTime /\ time < cue.endTime
             THEN Found(mid, n + 1)
             ELSE IF time < cue.startTime
                  THEN SearchFrom(cs, time, low, mid - 1, n + 1)
                  ELSE SearchFrom(cs, time, mid + 1, high, n + 1)

findCueIndexAtTime(cs, time) ==
    IF Len(cs) = 0 THEN Found(0 - 1, 0)
    ELSE SearchFrom(cs, time, 0, Len(cs) - 1, 0)

-----------------------------------------------------------------------------
(* Timeline inputs *)

\* One alignment entry, given by its distance from the end of the entry before
\* it and by its length.  A length of 0 gives start >= end, `defined = FALSE`
\* gives an undefined start time.
Kind(c, g, d, def) == [char |-> c, gap |-> g, dur |-> d, defined |-> def]

EntryKinds ==
    {Kind("a", g, 30, TRUE) : g \in {0, 10, 20, 50}}
    \cup {Kind("i", g, 30, TRUE) : g \in {10, 20}}
    \cup {Kind("h", g, 30, TRUE) : g \in {0, 20, 50}}
    \cup {Kind("a", 0, 100, TRUE),     \* a long span, so that a later one
          Kind("a", 0 - 60, 30, TRUE), \* can start 60 ms before its end,
          Kind("a", 0 - 40, 30, TRUE), \* or 40 ms before it and be merged
          Kind("a", 0, 0, TRUE),
          Kind("a", 0, 30, FALSE)}

RECURSIVE BuildAlignmentFrom(_, _, _, _)
BuildAlignmentFrom(kinds, i, cursor, al) ==
    IF i > Len(kinds) THEN al
    ELSE LET k == kinds[i]
             s == cursor + k.gap
             e == s + k.dur
         IN  BuildAlignmentFrom(kinds, i + 1, e,
                 [characters |-> Append(al.characters, k.char),
                  character_start_times_seconds |->
                      Append(al.character_start_times_seconds,
                             IF k.defined THEN s ELSE Undef),
                  character_end_times_seconds |->
                      Append(al.character_end_times_seconds, e)])

EmptyAlignment ==
    [characters |-> <<>>,
     character_start_times_seconds |-> <<>>,
     character_end_times_seconds |-> <<>>]

BuildAlignment(kinds) == BuildAlignmentFrom(kinds, 1, 0, EmptyAlignment)

NonNegative(al) ==
    \A i \in 1..Len(al.characters) :
        al.character_start_times_seconds[i] \in {Undef} \cup Nat

\* "hi!" with spans of 200, 200 and 100 ms
HiAlignment ==
    [characters |-> <<"h", "i", "!">>,
     character_start_times_seconds |-> <<0, 200, 400>>,
     character_end_times_seconds |-> <<200, 400, 500>>]

AlignmentInputs ==
    {al \in {BuildAlignment(ks) :
                ks \in UNION {[1..n -> EntryKinds] : n \in 0..MaxLen}} :
        NonNegative(al)}
    \cup {HiAlignment}

\* the times at which a timeline is sampled: at, just inside, half way through
\* and at the end of every cue, before the timeline and past it
SampleTimes(cs) ==
    {0 - 5, getTimelineDuration(cs) + 5}
    \cup UNION {{cs[i].startTime, cs[i].startTime + 5,
                 (cs[i].startTime + cs[i].endTime) \div 2, cs[i].endTime} :
                    i \in 1..Len(cs)}

NoSample == [time |-> Undef, result |-> VisemeSample("sil", One, Null)]

-----------------------------------------------------------------------------
(* Viseme table, continued: utils/visemeMapper *)

\* jaw rotation per viseme, in units of 0.0001
VISEME_JAW_ROTATION(v) ==
    CASE v = "sil" -> 0
      [] v = "PP" -> 200
      [] v = "FF" -> 500
      [] v = "TH" -> 800
      [] v = "DD" -> 1200
      [] v = "kk" -> 1500
      [] v = "CH" -> 1800
      [] v = "SS" -> 1000
      [] v = "nn" -> 800
      [] v = "RR" -> 1200
      [] v = "aa" -> 3500
      [] v = "E" -> 2500
      [] v = "I" -> 1500
      [] v = "O" -> 3000
      [] v = "U" -> 2000

\* openness in units of 0.001
opennessToViseme(openness) ==
    IF openness < 100 THEN "sil"
    ELSE IF openness < 200 THEN "SS"
    ELSE IF openness < 350 THEN "I"
    ELSE IF openness < 500 THEN "E"
    ELSE IF openness < 700 THEN "O"
    ELSE "aa"

-----------------------------------------------------------------------------
(* Jaw interpolation: utils/visemeTimeline getInterpolatedJawRotation *)

\* progress < transitionStart, with transitionStart = 0.7
BeforeTransition(progress) == 10 * progress.num < 7 * progress.den

\* the blend without the ease-out: current + (next - current) * t
getInterpolatedJawRotation_linear(cur, next, progress) ==
    LET currentRotation == VISEME_JAW_ROTATION(cur)
    IN  IF next = Null \/ BeforeTransition(progress) THEN currentRotation
        ELSE currentRotation
             + ((VISEME_JAW_ROTATION(next) - currentRotation)
                   * (10 * progress.num - 7 * progress.den))
               \div (3 * progress.den)

\* With p = num/den: transitionProgress = (p - 0.7) / 0.3 and
\* easedProgress = 1 - (1 - transitionProgress)^2
\*               = (9 den^2 - 100 (den - num)^2) / (9 den^2)
getInterpolatedJawRotation(cur, next, progress) ==
    LET currentRotation == VISEME_JAW_ROTATION(cur)
    IN  IF next = Null \/ BeforeTransition(progress) THEN currentRotation
        ELSE LET nextRotation == VISEME_JAW_ROTATION(next)
                 d == progress.den
                 n == progress.num
                 easedNum == 9 * d * d - 100 * (d - n) * (d - n)
                 easedDen == 9 * d * d
             IN  currentRotation
                 + ((nextRotation - currentRotation) * easedNum) \div easedDen

-----------------------------------------------------------------------------
(* Lip-sync numerics: hooks/useLipSync *)

\* THRESHOLDS, in units of 0.01
THRESHOLD_CLOSED == 1500
THRESHOLD_SMALL == 3500
THRESHOLD_MEDIUM == 6000

\* amp in units of 0.01
getMouthShapeFromAmplitude(amp) ==
    IF amp < THRESHOLD_CLOSED THEN "closed"
    ELSE IF amp < THRESHOLD_SMALL THEN "small"
    ELSE IF amp < THRESHOLD_MEDIUM THEN "medium"
    ELSE "wide"

MinOf(a, b) == IF a < b THEN a ELSE b
MaxOf(a, b) == IF a > b THEN a ELSE b

\* old * SMOOTHING_FACTOR + raw * (1 - SMOOTHING_FACTOR), SMOOTHING_FACTOR = 0.3
SmoothAmplitude(old, raw) == (3 * old + 7 * raw) \div 10

\* the blend adding 70% of the target to the whole previous jaw
SmoothJaw_additive(previousJaw, targetJaw) ==
    previousJaw + (7 * targetJaw) \div 10

\* previousJaw * 0.3 + targetJaw * 0.7
SmoothJaw(previousJaw, targetJaw) == (3 * previousJaw + 7 * targetJaw) \div 10

\* Math.min(1, smoothedJaw / 0.35), in units of 0.001
JawOpenness(smoothedJaw) == MinOf(1000, (smoothedJaw * 1000) \div 3500)

\* Math.min(1, Math.max(0, smoothedAmplitude / 80)), in units of 0.001
AmplitudeOpenness(smoothedAmplitude) ==
    MinOf(1000, MaxOf(0, smoothedAmplitude \div 8))

\* what one tick publishes: precise mode
PreciseSample(cs, currentTime, previousJaw) ==
    LET at == getVisemeAtTime(cs, currentTime)
        targetJaw ==
            getInterpolatedJawRotation(at.viseme, at.nextViseme, at.progress)
        smoothedJaw == SmoothJaw(previousJaw, targetJaw)
        openness == JawOpenness(smoothedJaw)
    IN  [viseme |-> at.viseme, jaw |-> smoothedJaw, previousJaw |-> smoothedJaw,
         openness |-> openness,
         shape |-> getMouthShapeFromAmplitude(openness * 8)]

\* the fallback with the jaw smoothed against the previous frame, as the
\* precise mode does
FallbackSample_blended(smoothedAmplitude, previousJaw) ==
    LET openness == AmplitudeOpenness(smoothedAmplitude)
        viseme == opennessToViseme(openness)
        smoothedJaw == SmoothJaw(previousJaw, VISEME_JAW_ROTATION(viseme))
    IN  [viseme |-> viseme, jaw |-> smoothedJaw, previousJaw |-> smoothedJaw,
         openness |-> openness,
         shape |-> getMouthShapeFromAmplitude(smoothedAmplitude)]

\* what one tick publishes: amplitude fallback
FallbackSample(smoothedAmplitude, previousJaw) ==
    LET openness == AmplitudeOpenness(smoothedAmplitude)
        viseme == opennessToViseme(openness)
    IN  [viseme |-> viseme, jaw |-> VISEME_JAW_ROTATION(viseme),
         previousJaw |-> previousJaw, openness |-> openness,
         shape |-> getMouthShapeFromAmplitude(smoothedAmplitude)]

NoProbe == [op |-> "none"]

\* a VisemeCue[] | null reference
CuesRef(cs) == [null |-> FALSE, cues |-> cs]
NullCues == [null |-> TRUE, cues |-> <<>>]

\* the mode test without the length: an empty array selects the precise mode
UsePrecise_nonNull(ref) == ~ref.null

\* visemeCuesRef.current && visemeCuesRef.current.length > 0
UsePrecise(ref) == ~ref.null /\ Len(ref.cues) > 0

-----------------------------------------------------------------------------
(* Gesture triggers: utils/visemeTimeline findGestureTriggers *)

Trigger(t, k) == [time |-> t, type |-> k]

RECURSIVE TriggersFrom(_, _)
TriggersFrom(al, i) ==
    IF i > Len(al.characters) THEN <<>>
    ELSE LET char == al.characters[i]
             time == al.character_start_times_seconds[i]
             here == IF char = "!" THEN <<Trigger(time, "exclaim")>>
                     ELSE IF char = "?" THEN <<Trigger(time, "question")>>
                     ELSE IF char = "." /\ i > 1
                          THEN <<Trigger(time, "emphasis")>>
                     ELSE <<>>
         IN  here \o TriggersFrom(al, i + 1)

findGestureTriggers(al) == TriggersFrom(al, 1)

-----------------------------------------------------------------------------
(* Speech results handed to playAudio: services/tts generateSpeech *)

Speech(al, has, lvl, ms) ==
    [alignmentData |-> al, hasAlignment |-> has, level |-> lvl, audioMs |-> ms]

\* "a.!" from the provider with timestamps: a trigger at 100 ms and one at
\* 150 ms, whose windows overlap; 400 ms of audio at amplitude 80
SpokenWithAlignment ==
    Speech([characters |-> <<"a", ".", "!">>,
            character_start_times_seconds |-> <<0, 100, 150>>,
            character_end_times_seconds |-> <<100, 150, 200>>],
           TRUE, 8000, 400)

\* speech from the provider without timestamps; 200 ms of audio at amplitude 40
SpokenWithoutAlignment == Speech(EmptyAlignment, FALSE, 4000, 200)

SpeechResults == {SpokenWithAlignment, SpokenWithoutAlignment}

\* speech whose alignment has no character: visemeCues is the empty array;
\* 200 ms of audio at amplitude 40
SpokenWithEmptyAlignment == Speech(EmptyAlignment, TRUE, 4000, 200)

\* visemeCues of the SpeechResult: generateVisemeTimeline(alignmentData), or
\* undefined, and then `visemeCues || null`
VisemeCuesOf(speech) ==
    IF speech.hasAlignment
    THEN CuesRef(generateVisemeTimeline(speech.alignmentData))
    ELSE NullCues

TriggersOf(speech) ==
    IF speech.hasAlignment THEN findGestureTriggers(speech.alignmentData)
    ELSE <<>>

-----------------------------------------------------------------------------
(* Gesture library: data/gestures *)

GestureDef(d, ci, p) == [duration |-> d, canInterrupt |-> ci, priority |-> p]

GestureTypes ==
    {"armFlailLeft", "armFlailRight", "armFlailBoth", "headShake", "headNod",
     "pointLeft", "pointRight", "shrug", "leanForward", "leanBack"}

\* the library with armFlailBoth at the lowest priority
GESTURE_LIBRARY_flailLow(type) ==
    CASE type = "armFlailLeft" -> GestureDef(400, TRUE, 2)
      [] type = "armFlailRight" -> GestureDef(400, TRUE, 2)
      [] type = "armFlailBoth" -> GestureDef(500, FALSE, 1)
      [] type = "headShake" -> GestureDef(300, TRUE, 1)
      [] type = "headNod" -> GestureDef(250, TRUE, 1)
      [] type = "pointLeft" -> GestureDef(500, TRUE, 2)
      [] type = "pointRight" -> GestureDef(500, TRUE, 2)
      [] type = "shrug" -> GestureDef(400, TRUE, 2)
      [] type = "leanForward" -> GestureDef(300, TRUE, 1)
      [] type = "leanBack" -> GestureDef(300, TRUE, 1)

\* duration in ms
GESTURE_LIBRARY(type) ==
    CASE type = "armFlailLeft" -> GestureDef(400, TRUE, 2)
      [] type = "armFlailRight" -> GestureDef(400, TRUE, 2)
      [] type = "armFlailBoth" -> GestureDef(500, FALSE, 3)
      [] type = "headShake" -> GestureDef(300, TRUE, 1)
      [] type = "headNod" -> GestureDef(250, TRUE, 1)
      [] type = "pointLeft" -> GestureDef(500, TRUE, 2)
      [] type = "pointRight" -> GestureDef(500, TRUE, 2)
      [] type = "shrug" -> GestureDef(400, TRUE, 2)
      [] type = "leanForward" -> GestureDef(300, TRUE, 1)
      [] type = "leanBack" -> GestureDef(300, TRUE, 1)

\* the time of each keyframe of a gesture, in units of 0.01
KeyframeTimes(type) ==
    CASE type = "armFlailLeft" -> <<0, 20, 50, 100>>
      [] type = "armFlailRight" -> <<0, 20, 50, 100>>
      [] type = "armFlailBoth" -> <<0, 15, 40, 100>>
      [] type = "headShake" -> <<0, 15, 35, 55, 75, 100>>
      [] type = "headNod" -> <<0, 30, 60, 100>>
      [] type = "pointLeft" -> <<0, 30, 70, 100>>
      [] type = "pointRight" -> <<0, 30, 70, 100>>
      [] type = "shrug" -> <<0, 25, 60, 100>>
      [] type = "leanForward" -> <<0, 40, 70, 100>>
      [] type = "leanBack" -> <<0, 40, 70, 100>>

\* progress >= time and progress <= time, for a progress num / den and a time
\* in units of 0.01
AtLeast(progress, time) == 100 * progress.num >= time * progress.den

AtMost(progress, time) == 100 * progress.num <= time * progress.den

\* the keyframes chosen (indices from 0), the local progress between them,
\* and whether the call threw
Rotations(kf1, kf2, localProgress) ==
    [threw |-> FALSE, kf1 |-> kf1, kf2 |-> kf2, localProgress |-> localProgress]

Thrown == [threw |-> TRUE]

\* kf2.time > kf1.time ? (progress - kf1.time) / (kf2.time - kf1.time) : 0
LocalProgress(times, progress, kf1, kf2) ==
    IF times[kf2 + 1] > times[kf1 + 1]
    THEN Frac(100 * progress.num - progress.den * times[kf1 + 1],
              progress.den * (times[kf2 + 1] - times[kf1 + 1]))
    ELSE Frac(0, 1)

\* the loop keeping the last pair that contains the progress
RECURSIVE LastPairFrom(_, _, _, _)
LastPairFrom(times, progress, i, found) ==
    IF i >= Len(times) - 1 THEN found
    ELSE IF AtLeast(progress, times[i + 1]) /\ AtMost(progress, times[i + 2])
         THEN LastPairFrom(times, progress, i + 1, <<i, i + 1>>)
         ELSE LastPairFrom(times, progress, i + 1, found)

getGestureRotations_lastPair(times, progress) ==
    IF Len(times) = 0 THEN Thrown
    ELSE LET pair == LastPairFrom(times, progress, 0, <<0, Len(times) - 1>>)
         IN  Rotations(pair[1], pair[2],
                       LocalProgress(times, progress, pair[1], pair[2]))

\* the loop over i: the first pair with
\* progress >= keyframes[i].time && progress <= keyframes[i + 1].time,
\* else the first and the last keyframe
RECURSIVE PairFrom(_, _, _)
PairFrom(times, progress, i) ==
    IF i >= Len(times) - 1 THEN <<0, Len(times) - 1>>
    ELSE IF AtLeast(progress, times[i + 1]) /\ AtMost(progress, times[i + 2])
         THEN <<i, i + 1>>
         ELSE PairFrom(times, progress, i + 1)

\* getGestureRotations on the keyframe times of a gesture: without keyframes
\* kf2 is undefined and reading kf2.time throws
getGestureRotations(times, progress) ==
    IF Len(times) = 0 THEN Thrown
    ELSE LET pair == PairFrom(times, progress, 0)
         IN  Rotations(pair[1], pair[2],
                       LocalProgress(times, progress, pair[1], pair[2]))

\* one entry of a keyframe's rotations: the bone and the axes it sets
Rot(bone, axes) == [bone |-> bone, axes |-> axes]

Axes == {"x", "y", "z"}

\* the rotations of each keyframe of a gesture, in units of 0.01
KeyframeRotations(type) ==
    CASE type = "armFlailLeft" ->
            <<<<Rot("leftArm", "z" :> 120 @@ "x" :> 0),
                 Rot("leftForeArm", "z" :> 30 @@ "y" :> 0)>>,
              <<Rot("leftArm", "z" :> 30 @@ "x" :> (0 - 50)),
                 Rot("leftForeArm", "z" :> 80 @@ "y" :> 30)>>,
              <<Rot("leftArm", "z" :> 60 @@ "x" :> 30),
                 Rot("leftForeArm", "z" :> 50 @@ "y" :> (0 - 20))>>,
              <<Rot("leftArm", "z" :> 120 @@ "x" :> 0),
                 Rot("leftForeArm", "z" :> 30 @@ "y" :> 0)>>>>
      [] type = "armFlailRight" ->
            <<<<Rot("rightArm", "z" :> (0 - 120) @@ "x" :> 0),
                 Rot("rightForeArm", "z" :> (0 - 30) @@ "y" :> 0)>>,
              <<Rot("rightArm", "z" :> (0 - 30) @@ "x" :> (0 - 50)),
                 Rot("rightForeArm", "z" :> (0 - 80) @@ "y" :> (0 - 30))>>,
              <<Rot("rightArm", "z" :> (0 - 60) @@ "x" :> 30),
                 Rot("rightForeArm", "z" :> (0 - 50) @@ "y" :> 20)>>,
              <<Rot("rightArm", "z" :> (0 - 120) @@ "x" :> 0),
                 Rot("rightForeArm", "z" :> (0 - 30) @@ "y" :> 0)>>>>
      [] type = "armFlailBoth" ->
            <<<<Rot("leftArm", "z" :> 120),
                 Rot("rightArm", "z" :> (0 - 120)),
                 Rot("spine2", "x" :> 0)>>,
              <<Rot("leftArm", "z" :> 20 @@ "x" :> (0 - 40)),
                 Rot("rightArm", "z" :> (0 - 20) @@ "x" :> (0 - 40)),
                 Rot("spine2", "x" :> (0 - 10))>>,
              <<Rot("leftArm", "z" :> 50 @@ "x" :> 30),
                 Rot("rightArm", "z" :> (0 - 50) @@ "x" :> 30),
                 Rot("spine2", "x" :> 10)>>,
              <<Rot("leftArm", "z" :> 120),
                 Rot("rightArm", "z" :> (0 - 120)),
                 Rot("spine2", "x" :> 0)>>>>
      [] type = "headShake" ->
            <<<<Rot("head", "y" :> 0)>>,
              <<Rot("head", "y" :> 20)>>,
              <<Rot("head", "y" :> (0 - 20))>>,
              <<Rot("head", "y" :> 15)>>,
              <<Rot("head", "y" :> (0 - 10))>>,
              <<Rot("head", "y" :> 0)>>>>
      [] type = "headNod" ->
            <<<<Rot("head", "x" :> 0)>>,
              <<Rot("head", "x" :> 15)>>,
              <<Rot("head", "x" :> (0 - 5))>>,
              <<Rot("head", "x" :> 0)>>>>
      [] type = "pointLeft" ->
            <<<<Rot("leftArm", "z" :> 120 @@ "x" :> 0 @@ "y" :> 0),
                 Rot("leftForeArm", "z" :> 30),
                 Rot("leftHand", "z" :> 0)>>,
              <<Rot("leftArm", "z" :> 40 @@ "x" :> (0 - 30) @@ "y" :> 50),
                 Rot("leftForeArm", "z" :> 10),
                 Rot("leftHand", "z" :> (0 - 20))>>,
              <<Rot("leftArm", "z" :> 40 @@ "x" :> (0 - 30) @@ "y" :> 50),
                 Rot("leftForeArm", "z" :> 10),
                 Rot("leftHand", "z" :> (0 - 20))>>,
              <<Rot("leftArm", "z" :> 120 @@ "x" :> 0 @@ "y" :> 0),
                 Rot("leftForeArm", "z" :> 30),
                 Rot("leftHand", "z" :> 0)>>>>
      [] type = "pointRight" ->
            <<<<Rot("rightArm", "z" :> (0 - 120) @@ "x" :> 0 @@ "y" :> 0),
                 Rot("rightForeArm", "z" :> (0 - 30)),
                 Rot("rightHand", "z" :> 0)>>,
              <<Rot("rightArm", "z" :> (0 - 40) @@ "x" :> (0 - 30) @@ "y" :> (0 - 50)),
                 Rot("rightForeArm", "z" :> (0 - 10)),
                 Rot("rightHand", "z" :> 20)>>,
              <<Rot("rightArm", "z" :> (0 - 40) @@ "x" :> (0 - 30) @@ "y" :> (0 - 50)),
                 Rot("rightForeArm", "z" :> (0 - 10)),
                 Rot("rightHand", "z" :> 20)>>,
              <<Rot("rightArm", "z" :> (0 - 120) @@ "x" :> 0 @@ "y" :> 0),
                 Rot("rightForeArm", "z" :> (0 - 30)),
                 Rot("rightHand", "z" :> 0)>>>>
      [] type = "shrug" ->
            <<<<Rot("leftShoulder", "y" :> 0),
                 Rot("rightShoulder", "y" :> 0),
                 Rot("head", "z" :> 0)>>,
              <<Rot("leftShoulder", "y" :> 30),
                 Rot("rightShoulder", "y" :> (0 - 30)),
                 Rot("head", "z" :> 10)>>,
              <<Rot("leftShoulder", "y" :> 25),
                 Rot("rightShoulder", "y" :> (0 - 25)),
                 Rot("head", "z" :> 8)>>,
              <<Rot("leftShoulder", "y" :> 0),
                 Rot("rightShoulder", "y" :> 0),
                 Rot("head", "z" :> 0)>>>>
      [] type = "leanForward" ->
            <<<<Rot("spine", "x" :> 0),
                 Rot("spine1", "x" :> 0),
                 Rot("neck", "x" :> 0)>>,
              <<Rot("spine", "x" :> 10),
                 Rot("spine1", "x" :> 8),
                 Rot("neck", "x" :> 5)>>,
              <<Rot("spine", "x" :> 10),
                 Rot("spine1", "x" :> 8),
                 Rot("neck", "x" :> 5)>>,
              <<Rot("spine", "x" :> 0),
                 Rot("spine1", "x" :> 0),
                 Rot("neck", "x" :> 0)>>>>
      [] type = "leanBack" ->
            <<<<Rot("spine", "x" :> 0),
                 Rot("spine1", "x" :> 0),
                 Rot("neck", "x" :> 0)>>,
              <<Rot("spine", "x" :> (0 - 8)),
                 Rot("spine1", "x" :> (0 - 6)),
                 Rot("neck", "x" :> (0 - 4))>>,
              <<Rot("spine", "x" :> (0 - 8)),
                 Rot("spine1", "x" :> (0 - 6)),
                 Rot("neck", "x" :> (0 - 4))>>,
              <<Rot("spine", "x" :> 0),
                 Rot("spine1", "x" :> 0),
                 Rot("neck", "x" :> 0)>>>>

Keyframe(time, rotations) == [time |-> time, rotations |-> rotations]

\* GESTURE_LIBRARY[type].keyframes
KeyframesOf(type) ==
    [i \in 1..Len(KeyframeTimes(type)) |->
        Keyframe(KeyframeTimes(type)[i], KeyframeRotations(type)[i])]

RECURSIVE GCD(_, _)
GCD(a, b) == IF b = 0 THEN a ELSE GCD(b, a % b)

\* a fraction with a positive denominator, in lowest terms
Reduce(f) ==
    LET g == GCD(Abs(f.num), f.den)
    IN  Frac(f.num \div g, f.den \div g)

Whole(v) == Frac(v, 1)

Plus(f, g) == Reduce(Frac(f.num * g.den + g.num * f.den, f.den * g.den))

Times(f, g) == Reduce(Frac(f.num * g.num, f.den * g.den))

\* easings.easeInOut: t < 0.5 ? 2 * t * t : 1 - Math.pow(-2 * t + 2, 2) / 2
easeInOut(progress) ==
    LET t == Reduce(progress)
    IN  IF 2 * t.num < t.den
        THEN Reduce(Frac(2 * t.num * t.num, t.den * t.den))
        ELSE Reduce(Frac(t.den * t.den - 2 * (t.den - t.num) * (t.den - t.num),
                         t.den * t.den))

\* rotations.map((r) => r.bone)
BonesOf(kf) == {kf.rotations[i].bone : i \in 1..Len(kf.rotations)}

\* rotations.find((r) => r.bone === boneName): the first entry of the bone
FindRotation(kf, boneName) ==
    LET first == CHOOSE i \in 1..Len(kf.rotations) :
                    /\ kf.rotations[i].bone = boneName
                    /\ \A j \in 1..(i - 1) : kf.rotations[j].bone # boneName
    IN  kf.rotations[first].axes

\* rot1.x + (rot2.x - rot1.x) * t
Lerp(v1, v2, t) == Reduce(Frac(v1 * t.den + (v2 - v1) * t.num, t.den))

\* the blend that takes an axis missing from a keyframe as 0 there
BlendAxes_towardZero(rot1, rot2, t) ==
    [a \in (DOMAIN rot1) \cup (DOMAIN rot2) |->
        Lerp(IF a \in DOMAIN rot1 THEN rot1[a] ELSE 0,
             IF a \in DOMAIN rot2 THEN rot2[a] ELSE 0, t)]

\* the axes of a bone that both keyframes name: interpolated where both set
\* the axis, rot1.x ?? rot2.x otherwise
BlendAxes(rot1, rot2, t) ==
    [a \in (DOMAIN rot1) \cup (DOMAIN rot2) |->
        IF a \in DOMAIN rot1 /\ a \in DOMAIN rot2 THEN Lerp(rot1[a], rot2[a], t)
        ELSE IF a \in DOMAIN rot1 THEN Whole(rot1[a])
        ELSE Whole(rot2[a])]

\* { x: rot.x, y: rot.y, z: rot.z } of a bone only one keyframe names
CopyAxes(rot) == [a \in DOMAIN rot |-> Whole(rot[a])]

\* interpolateKeyframes(kf1, kf2, progress) with the default easing: the
\* result maps each bone to its axes, values in units of 0.01
interpolateKeyframes(kf1, kf2, progress) ==
    LET t == easeInOut(progress)
    IN  [boneName \in BonesOf(kf1) \cup BonesOf(kf2) |->
            IF boneName \in BonesOf(kf1) /\ boneName \in BonesOf(kf2)
            THEN BlendAxes(FindRotation(kf1, boneName),
                           FindRotation(kf2, boneName), t)
            ELSE IF boneName \in BonesOf(kf1)
                 THEN CopyAxes(FindRotation(kf1, boneName))
                 ELSE CopyAxes(FindRotation(kf2, boneName))]

\* getGestureRotations(definition, progress) of a gesture with keyframes
RotationsAt(keyframes, progress) ==
    LET r == getGestureRotations([i \in 1..Len(keyframes) |-> keyframes[i].time],
                                 progress)
    IN  interpolateKeyframes(keyframes[r.kf1 + 1], keyframes[r.kf2 + 1],
                             r.localProgress)

\* rotation.x * activeGesture.intensity on every axis that is set, the
\* intensity in units of 0.001; skipped when the intensity is 1.0
ScaleRotations(rotations, intensity) ==
    IF intensity = 1000 THEN rotations
    ELSE [b \in DOMAIN rotations |->
            [a \in DOMAIN rotations[b] |->
                Times(rotations[b][a], Frac(intensity, 1000))]]

\* getCurrentGestureRotations() of the hook, for the rendered activeGesture
\* and gestureProgress: null without an active gesture
getCurrentGestureRotations(active, progress) ==
    IF active.type = "none" THEN [null |-> TRUE]
    ELSE [null |-> FALSE,
          rotations |-> ScaleRotations(RotationsAt(KeyframesOf(active.type),
                                                   progress),
                                       active.intensity)]

-----------------------------------------------------------------------------
(* Noise helpers of hooks/useAnimationState *)

\* sin(n + seed) * 43758.5453 minus its floor, in units of 0.001 (rounded
\* down), for the cells 0..9 and the seeds the calls below use
HashValues(seed) ==
    CASE seed = 0 ->
            <<0, 546, 532, 206, 423, 868, 184, 777, 877, 705>>
      [] seed = 100 ->
            <<176, 990, 173, 76, 271, 787, 301, 780, 229, 468>>
      [] seed = 200 ->
            <<780, 772, 696, 274, 492, 125, 88, 264, 926, 930>>
      [] seed = 12345 ->
            <<998, 651, 539, 953, 975, 694, 528, 448, 590, 11>>

\* hash(n) of noise(x, seed), as a fraction
hash(n, seed) == Frac(HashValues(seed)[n + 1], 1000)

\* Math.floor of a fraction with a positive denominator
Floor(f) == f.num \div f.den

Minus(f, g) == Plus(f, Frac(0 - g.num, g.den))

\* noise(x, seed): t = xf * xf * (3 - 2 * xf),
\* hash(xi) * (1 - t) + hash(xi + 1) * t
noise(x, seed) ==
    LET xi == Floor(x)
        xf == Minus(x, Whole(xi))
        t == Times(Times(xf, xf), Minus(Whole(3), Times(Whole(2), xf)))
    IN  Plus(Times(hash(xi, seed), Minus(One, t)),
             Times(hash(xi + 1, seed), t))

RECURSIVE FbmFrom(_, _, _, _, _, _, _, _, _)
\* the loop of fbmNoise over the octaves, returning total / maxValue
FbmFrom(x, octaves, persistence, seed, i, total, amp, maxValue, frequency) ==
    IF i >= octaves THEN Times(total, Frac(maxValue.den, maxValue.num))
    ELSE FbmFrom(x, octaves, persistence, seed, i + 1,
                 Plus(total,
                      Times(noise(Times(x, Whole(frequency)), seed + i * 100),
                            amp)),
                 Times(amp, persistence),
                 Plus(maxValue, amp),
                 frequency * 2)

\* fbmNoise(x, octaves, persistence, seed) for at least one octave
fbmNoise(x, octaves, persistence, seed) ==
    FbmFrom(x, octaves, persistence, seed, 0, Frac(0, 1), One, Frac(0, 1), 1)

\* the value getRandomImpulse returns: 0, NaN, or Math.exp(exponent)
Impulse(kind, exponent) == [kind |-> kind, exponent |-> exponent]

\* impulseNoise > 0.8
AboveThreshold(impulseNoise) == 10 * impulseNoise.num > 8 * impulseNoise.den

\* getRandomImpulse(time, frequency, decay), with time and decay fractions and
\* an integer frequency: Math.floor(time * frequency) / frequency is 0 / 0, so
\* NaN, for the frequency 0, and Math.exp(NaN) is NaN
getRandomImpulse(time, frequency, decay) ==
    LET scaled == Times(time, Whole(frequency))
        impulseNoise == noise(scaled, 12345)
    IN  IF AboveThreshold(impulseNoise)
        THEN IF frequency = 0 THEN Impulse("NaN", Frac(0, 1))
             ELSE LET peakTime == IF frequency > 0
                                  THEN Frac(Floor(scaled), frequency)
                                  ELSE Frac(0 - Floor(scaled), 0 - frequency)
                      timeSincePeak == Minus(time, peakTime)
                  IN  Impulse("exp",
                              Times(Times(Frac(0 - timeSincePeak.num,
                                               timeSincePeak.den), decay),
                                    Whole(10)))
        ELSE Impulse("zero", Frac(0, 1))

\* gestureMap of getGestureForTrigger
GestureCandidates(triggerType) ==
    CASE triggerType = "emphasis" ->
            <<"headNod", "pointLeft", "pointRight", "leanForward">>
      [] triggerType = "question" -> <<"headShake", "shrug", "leanBack">>
      [] triggerType = "exclaim" ->
            <<"armFlailBoth", "armFlailLeft", "armFlailRight", "leanForward">>

\* values of Math.random(), in units of 0.001
RandomValues == {0, 999}

\* options[Math.floor(random * options.length)]
PickRandom(options, random) == options[((random * Len(options)) \div 1000) + 1]

getGestureForTrigger(triggerType, random) ==
    PickRandom(GestureCandidates(triggerType), random)

-----------------------------------------------------------------------------
(* Animation presets: data/animationPresets *)

\* twitchFrequency in units of 0.1 per second, the others in units of 0.001
Preset(tf, ti, ep, ei) ==
    [twitchFrequency |-> tf, twitchIntensity |-> ti,
     emphasisProbability |-> ep, exclamationIntensity |-> ei]

ALIEN_CHILD_PRESET == Preset(15, 800, 700, 1500)

CALM_FRIENDLY_PRESET == Preset(0, 0, 300, 1000)

Presets == {ALIEN_CHILD_PRESET, CALM_FRIENDLY_PRESET}

-----------------------------------------------------------------------------
(* Gesture state machine: hooks/useAnimationState *)

Zero == Frac(0, 1)

\* activeGesture === null
NoGesture == [type |-> "none", duration |-> 0, intensity |-> 0]

\* intensity in units of 0.001
Gesture(type, intensity) ==
    [type |-> type, duration |-> GESTURE_LIBRARY(type).duration,
     intensity |-> intensity]

GestureCall(type, intensity) == [type |-> type, intensity |-> intensity]

\* GESTURE_LIBRARY[activeGesture.type]?.priority || 0
PriorityOf(gesture) ==
    IF gesture.type \in GestureTypes THEN GESTURE_LIBRARY(gesture.type).priority
    ELSE 0

\* The gesture machine as one call of queueGesture or updateGesture leaves it:
\* the pending activeGesture and gestureProgress, the two refs, and whether
\* setActiveGesture was called.
GestureState(a, s, p, q, set) ==
    [active |-> a, start |-> s, progress |-> p, queue |-> q, set |-> set]

CurrentGestureState ==
    GestureState(activeGesture, gestureStartTimeRef, gestureProgress,
                 gestureQueueRef, FALSE)

\* the activation emptying the queue as well
Activate_clearQueue(gs, gesture) ==
    [gs EXCEPT !.active = gesture, !.start = now, !.progress = Zero,
               !.queue = <<>>, !.set = TRUE]

\* setActiveGesture(gesture); gestureStartTimeRef.current = performance.now();
\* setGestureProgress(0)
Activate(gs, gesture) ==
    [gs EXCEPT !.active = gesture, !.start = now, !.progress = Zero,
               !.set = TRUE]

\* the preemption test with equal priority preempting as well
Preempts_orEqual(definition, closureActive) ==
    definition.priority >= PriorityOf(closureActive)

\* the preemption test of queueGesture
Preempts(definition, closureActive) ==
    definition.priority > PriorityOf(closureActive)

\* queueGesture without the start-immediately branch for an idle machine
queueGesture_alwaysQueue(gs, closureActive, type, intensity) ==
    IF type \notin GestureTypes THEN gs
    ELSE [gs EXCEPT !.queue = Append(@, Gesture(type, intensity))]

\* One call of queueGesture.  closureActive is the activeGesture the callback
\* closed over, that of the last render.
queueGesture(gs, closureActive, type, intensity) ==
    IF type \notin GestureTypes THEN gs
    ELSE LET definition == GESTURE_LIBRARY(type)
             gesture == Gesture(type, intensity)
         IN  IF closureActive = NoGesture THEN Activate(gs, gesture)
             ELSE IF Preempts(definition, closureActive)
                  THEN Activate(gs, gesture)
             ELSE [gs EXCEPT !.queue = Append(@, gesture)]

RECURSIVE ApplyCalls(_, _, _, _)
\* the calls of queueGesture made by one effect run, all with the same closure
ApplyCalls(calls, i, closureActive, gs) ==
    IF i > Len(calls) THEN gs
    ELSE ApplyCalls(calls, i + 1, closureActive,
                    queueGesture(gs, closureActive, calls[i].type,
                                 calls[i].intensity))

\* updateGesture taking the head of the queue last in, first out
NextQueued_lifo(queue) ==
    [next |-> queue[Len(queue)], rest |-> SubSeq(queue, 1, Len(queue) - 1)]

\* updateGesture taking the head of the queue and dropping the one behind it
NextQueued_dropsSecond(queue) ==
    [next |-> Head(queue),
     rest |-> IF Len(queue) > 1 THEN Tail(Tail(queue)) ELSE <<>>]

\* gestureQueueRef.current.shift()
NextQueued(queue) == [next |-> Head(queue), rest |-> Tail(queue)]

\* updateGesture completing a gesture without looking at the queue
AdvanceGesture_noDequeue(gs, timestamp) ==
    LET elapsed == timestamp - gs.start
    IN  IF elapsed >= gs.active.duration
        THEN GestureState(NoGesture, Undef, Zero, gs.queue, TRUE)
        ELSE [gs EXCEPT !.progress = Frac(elapsed, gs.active.duration)]

\* updateGesture completing a gesture only after its duration is exceeded
AdvanceGesture_strict(gs, timestamp) ==
    LET elapsed == timestamp - gs.start
    IN  IF elapsed > gs.active.duration
        THEN IF Len(gs.queue) > 0
             THEN LET nq == NextQueued(gs.queue)
                  IN  GestureState(nq.next, now, Zero, nq.rest, TRUE)
             ELSE GestureState(NoGesture, Undef, Zero, gs.queue, TRUE)
        ELSE [gs EXCEPT !.progress = Frac(elapsed, gs.active.duration)]

\* The body of updateGesture for an active gesture, at frame time timestamp.
AdvanceGesture(gs, timestamp) ==
    LET elapsed == timestamp - gs.start
    IN  IF elapsed >= gs.active.duration
        THEN \* progress >= 1: gesture complete, start the next queued one
             IF Len(gs.queue) > 0
             THEN LET nq == NextQueued(gs.queue)
                  IN  GestureState(nq.next, now, Zero, nq.rest, TRUE)
             ELSE GestureState(NoGesture, Undef, Zero, gs.queue, TRUE)
        ELSE [gs EXCEPT !.progress = Frac(elapsed, gs.active.duration)]

\* the trigger window [time - 0.05, time + 0.2]
TRIGGER_EARLY_MS == 50
TRIGGER_LATE_MS == 200

InWindow(pt, time) ==
    pt >= time - TRIGGER_EARLY_MS /\ pt <= time + TRIGGER_LATE_MS

\* a trigger whose window was entered, and whether its draw passed the gate
Fire(i, trigger, passed) ==
    [index |-> i, trigger |-> trigger, passed |-> passed]

TriggerRun(processed, calls, fired) ==
    [processed |-> processed, calls |-> calls, fired |-> fired]

\* the trigger effect without the dedup mark
MarkProcessed_never(processed, time) == processed

\* processedTriggersRef.current.add(trigger.time)
MarkProcessed(processed, time) == processed \cup {time}

RECURSIVE TriggerLoop_markOnRequest(_, _, _, _, _, _)
\* the loop marking a trigger only when its draw passes the gate
TriggerLoop_markOnRequest(triggers, i, pt, pr, run, draws) ==
    IF i > Len(triggers) THEN run
    ELSE LET trigger == triggers[i]
             passed == draws[i].gate < pr.emphasisProbability
         IN  IF trigger.time \notin run.processed /\ InWindow(pt, trigger.time)
             THEN TriggerLoop_markOnRequest(triggers, i + 1, pt, pr,
                      TriggerRun(
                          IF passed THEN MarkProcessed(run.processed, trigger.time)
                          ELSE run.processed,
                          IF passed
                          THEN Append(run.calls,
                                   GestureCall(
                                       getGestureForTrigger(trigger.type,
                                                            draws[i].pick),
                                       IF trigger.type = "exclaim"
                                       THEN pr.exclamationIntensity
                                       ELSE 1000))
                          ELSE run.calls,
                          Append(run.fired, Fire(i, trigger, passed))),
                      draws)
             ELSE TriggerLoop_markOnRequest(triggers, i + 1, pt, pr, run, draws)

RECURSIVE TriggerLoop(_, _, _, _, _, _)
\* The for loop of the trigger effect.  draws[i] holds the two values of
\* Math.random() used for trigger i: the probability gate and the pick.
TriggerLoop(triggers, i, pt, pr, run, draws) ==
    IF i > Len(triggers) THEN run
    ELSE LET trigger == triggers[i]
         IN  IF trigger.time \in run.processed
             THEN TriggerLoop(triggers, i + 1, pt, pr, run, draws)
             ELSE IF InWindow(pt, trigger.time)
             THEN LET processed == MarkProcessed(run.processed, trigger.time)
                      fired ==
                          Append(run.fired,
                                 Fire(i, trigger,
                                      draws[i].gate < pr.emphasisProbability))
                      calls ==
                          IF draws[i].gate < pr.emphasisProbability
                          THEN Append(run.calls,
                                   GestureCall(
                                       getGestureForTrigger(trigger.type,
                                                            draws[i].pick),
                                       IF trigger.type = "exclaim"
                                       THEN pr.exclamationIntensity
                                       ELSE 1000))
                          ELSE run.calls
                  IN  TriggerLoop(triggers, i + 1, pt, pr,
                                  TriggerRun(processed, calls, fired), draws)
             ELSE TriggerLoop(triggers, i + 1, pt, pr, run, draws)

\* amplitude > 60
AGITATED_ABOVE == 6000

\* the coarse state the first effect sets
CoarseState(ip, amp) ==
    IF ip THEN (IF amp > AGITATED_ABOVE THEN "agitated" ELSE "speaking")
    ELSE "idle"

\* the coarse-state effect depending on isPlaying alone
CoarseRuns_playingOnly(ip2, amp2) == ip2 # isPlaying

\* Whether the coarse-state effect runs after a render with the hook arguments
\* ip2 and amp2: one of its dependencies changed.
CoarseRuns(ip2, amp2) == ip2 # isPlaying \/ amp2 # amplitude

\* processedTriggersRef.current after the coarse-state effect
ProcessedAfterCoarse(ip2, amp2) ==
    IF CoarseRuns(ip2, amp2) /\ ~ip2 THEN {} ELSE processedTriggersRef

\* Whether the loop of the trigger effect runs: a dependency changed (trgSet:
\* setGestureTriggers was called, always with a new array) and the guard passes.
TriggerRuns(ip2, pt2, trg2, trgSet, pr2) ==
    /\ pt2 # playbackTime \/ trgSet \/ ip2 # isPlaying \/ pr2 # preset
    /\ ip2
    /\ Len(trg2) > 0

\* The effects of useAnimationState after a render with the hook's arguments
\* (ip2, amp2, pt2, trg2) and preset pr2.
HookEffects(ip2, amp2, pt2, trg2, trgSet, pr2, draws) ==
    LET state2 == IF CoarseRuns(ip2, amp2) THEN CoarseState(ip2, amp2)
                  ELSE animationState
        start == TriggerRun(ProcessedAfterCoarse(ip2, amp2), <<>>, <<>>)
        run == IF TriggerRuns(ip2, pt2, trg2, trgSet, pr2)
               THEN TriggerLoop(trg2, 1, pt2, pr2, start, draws)
               ELSE start
    IN  [animationState |-> state2, run |-> run]

Draw(g, p) == [gate |-> g, pick |-> p]

\* values of Math.random() for the gate: below every emphasisProbability, and
\* above every one
GateValues == {0, 999}

RECURSIVE AllDraws(_, _, _, _)
\* the draws of one effect run: only a trigger that fires draws
AllDraws(runs, pt2, trg2, i) ==
    IF i > Len(trg2) THEN {<<>>}
    ELSE LET here == IF /\ runs
                        /\ InWindow(pt2, trg2[i].time)
                        /\ trg2[i].time \notin processedTriggersRef
                     THEN {Draw(g, p) : g \in GateValues, p \in RandomValues}
                     ELSE {Draw(0, 0)}
         IN  {<<d>> \o rest : d \in here, rest \in AllDraws(runs, pt2, trg2, i + 1)}

Op(name, calls, fired) == [op |-> name, calls |-> calls, fired |-> fired]

\* writes the gesture machine back: the state update and the refs, and the
\* gesture loop effect (dependency activeGesture) requesting a new frame
CommitGesture(gs) ==
    /\ activeGesture' = gs.active
    /\ gestureStartTimeRef' = gs.start
    /\ gestureProgress' = gs.progress
    /\ gestureQueueRef' = gs.queue
    /\ gestureFrameRef' = IF gs.set THEN "requested" ELSE gestureFrameRef

\* the fired triggers whose window playback time pt is outside of
Outside(log, pt) ==
    {log[i].trigger.time : i \in {j \in 1..Len(log) :
                                     ~InWindow(pt, log[j].trigger.time)}}

PlayLog(stopped, restarted, samples) ==
    [stopped |-> stopped, restarted |-> restarted, samples |-> samples]

\* the record of stops, starts and samples after the operation called name
LogPlayback(name) ==
    CASE name = "stopAudio" -> PlayLog(playLog.stopped \/ isPlaying, FALSE, 0)
      [] name = "playAudio" -> PlayLog(FALSE, playLog.stopped, 0)
      [] name = "playAudioStart" -> [playLog EXCEPT !.samples = 0]
      [] name = "analyzeAudio" ->
            [playLog EXCEPT !.samples = IF @ < 2 THEN @ + 1 ELSE @]
      [] OTHER -> playLog

\* A render of App with new values of the hook arguments, and the effects of
\* useAnimationState that follow it.  newUtterance: the step is a playAudio call.
Render(name, ip2, amp2, pt2, trg2, trgSet, pr2, newUtterance) ==
    \E draws \in AllDraws(TriggerRuns(ip2, pt2, trg2, trgSet, pr2), pt2, trg2, 1) :
        LET fx == HookEffects(ip2, amp2, pt2, trg2, trgSet, pr2, draws)
            gs == ApplyCalls(fx.run.calls, 1, activeGesture, CurrentGestureState)
            log == (IF newUtterance THEN <<>> ELSE firedLog) \o fx.run.fired
        IN  /\ isPlaying' = ip2
            /\ amplitude' = amp2
            /\ playbackTime' = pt2
            /\ gestureTriggers' = trg2
            /\ preset' = pr2
            /\ animationState' = fx.animationState
            /\ processedTriggersRef' = fx.run.processed
            /\ CommitGesture(gs)
            /\ lastOp' = Op(name, fx.run.calls, fx.run.fired)
            /\ firedLog' = log
            /\ leftWindow' =
                  (IF newUtterance THEN {} ELSE leftWindow) \cup Outside(log, pt2)
            /\ playLog' = LogPlayback(name)

-----------------------------------------------------------------------------
(* The engine: useLipSync and useAnimationState driven by the clock *)

NoSpeech == Speech(EmptyAlignment, FALSE, 0, 0)

NoOp == Op("none", <<>>, <<>>)

Source(speech, state, startedAt) ==
    [speech |-> speech, state |-> state, startedAt |-> startedAt]

\* sourceRef.current.stop(): a source that is playing ends, and its onended
\* handler is dispatched later
StopSource(srcs, k) ==
    IF k # 0 /\ srcs[k].state = "playing"
    THEN [srcs EXCEPT ![k].state = "stopped"]
    ELSE srcs

\* performance.now() when the hooks mount: one second after page load
MountTime == 1000

\* the state after the hooks are mounted
EngineInit ==
    /\ now = MountTime
    /\ isPlaying = FALSE /\ amplitude = 0 /\ playbackTime = 0
    /\ gestureTriggers = <<>>
    /\ mouthShape = "closed" /\ mouthOpenness = 0
    /\ currentViseme = "sil" /\ jawRotation = 0
    /\ isPlayingRef = FALSE /\ smoothedAmplitudeRef = 0
    /\ previousJawRotationRef = 0 /\ visemeCuesRef = NullCues
    /\ startTimeRef = 0 /\ sourceRef = 0 /\ lipFrameRef = "none"
    /\ sources = <<>> /\ playPc = "idle" /\ playArg = NoSpeech
    /\ animationState = "idle" /\ activeGesture = NoGesture
    /\ preset = CALM_FRIENDLY_PRESET
    /\ gestureProgress = Zero /\ gestureQueueRef = <<>>
    /\ gestureStartTimeRef = Undef /\ lastTwitchTimeRef = 0
    /\ processedTriggersRef = {} /\ gestureFrameRef = "requested"
    /\ steps = 0 /\ apiCalls = 0 /\ lastOp = NoOp
    /\ firedLog = <<>> /\ leftWindow = {}
    /\ playLog = PlayLog(FALSE, FALSE, 0)

\* the values onended and stopAudio publish
ResetMouth ==
    /\ mouthShape' = "closed"
    /\ mouthOpenness' = 0
    /\ currentViseme' = "sil"
    /\ jawRotation' = 0

ResetRefs ==
    /\ isPlayingRef' = FALSE
    /\ smoothedAmplitudeRef' = 0
    /\ previousJawRotationRef' = 0
    /\ visemeCuesRef' = NullCues

\* The clock moves on to the next frame, once the callbacks of this frame have
\* run; the frames requested become due.  A frame lasts one or two ticks.
FrameLengths == {50, 100}

NextFrame(ms) ==
    /\ lipFrameRef # "due"
    /\ gestureFrameRef # "due"
    /\ now' = now + ms
    /\ steps' = steps + 1
    /\ lipFrameRef' = IF lipFrameRef = "requested" THEN "due" ELSE lipFrameRef
    /\ gestureFrameRef' = "due"
    /\ lastOp' = NoOp
    /\ UNCHANGED <<lipState, isPlayingRef, smoothedAmplitudeRef,
                   previousJawRotationRef, visemeCuesRef, startTimeRef,
                   sourceRef, audioVars, animationState, activeGesture, preset,
                   gestureProgress, gestureQueueRef, gestureStartTimeRef,
                   lastTwitchTimeRef, processedTriggersRef, apiCalls,
                   firedLog, leftWindow, playLog, timelineVars>>

\* a frame of a run of MaxSteps frames
Advance(ms) == steps < MaxSteps /\ NextFrame(ms)

\* playAudio up to its first await that yields (decodeAudioData)
PlayAudioCall(speech) ==
    /\ playPc = "idle"
    /\ Len(sources) < MaxPlays
    /\ apiCalls' = apiCalls + 1
    /\ sources' = StopSource(sources, sourceRef)
    /\ lipFrameRef' = "none"
    /\ visemeCuesRef' = VisemeCuesOf(speech)
    /\ playPc' = "decoding"
    /\ playArg' = speech
    /\ Render("playAudio", isPlaying, amplitude, playbackTime,
              TriggersOf(speech), TRUE, preset, TRUE)
    /\ UNCHANGED <<now, mouthShape, mouthOpenness, currentViseme, jawRotation,
                   isPlayingRef, smoothedAmplitudeRef, previousJawRotationRef,
                   startTimeRef, sourceRef, lastTwitchTimeRef, steps,
                   timelineVars>>

\* the application calls playAudio(speech)
PlayAudioBegin(speech) == apiCalls < MaxApiCalls /\ PlayAudioCall(speech)

\* playAudio after decoding: creates the source and starts it
PlayAudioFinish ==
    /\ playPc = "decoding"
    /\ sources' = Append(sources, Source(playArg, "playing", now))
    /\ sourceRef' = Len(sources) + 1
    /\ isPlayingRef' = TRUE
    /\ startTimeRef' = now
    /\ lipFrameRef' = "requested"
    /\ playPc' = "idle"
    /\ playArg' = NoSpeech
    /\ Render("playAudioStart", TRUE, amplitude, playbackTime, gestureTriggers,
              FALSE, preset, FALSE)
    /\ UNCHANGED <<now, mouthShape, mouthOpenness, currentViseme, jawRotation,
                   smoothedAmplitudeRef, previousJawRotationRef, visemeCuesRef,
                   lastTwitchTimeRef, steps, apiCalls, timelineVars>>

\* source k reached the end of its buffer or was stopped
Ended(k) ==
    \/ sources[k].state = "stopped"
    \/ /\ sources[k].state = "playing"
       /\ now - sources[k].startedAt >= sources[k].speech.audioMs

\* the onended handler of source k
OnEnded(k) ==
    /\ k \in 1..Len(sources)
    /\ Ended(k)
    /\ sources' = [sources EXCEPT ![k].state = "ended"]
    /\ ResetRefs
    /\ ResetMouth
    /\ lipFrameRef' = "none"
    /\ Render("onended", FALSE, 0, 0, <<>>, TRUE, preset, FALSE)
    /\ UNCHANGED <<now, startTimeRef, sourceRef, playPc, playArg,
                   lastTwitchTimeRef, steps, apiCalls, timelineVars>>

StopAudioCall ==
    /\ apiCalls' = apiCalls + 1
    /\ sources' = StopSource(sources, sourceRef)
    /\ sourceRef' = 0
    /\ lipFrameRef' = "none"
    /\ ResetRefs
    /\ ResetMouth
    /\ Render("stopAudio", FALSE, 0, 0, <<>>, TRUE, preset, FALSE)
    /\ UNCHANGED <<now, startTimeRef, playPc, playArg, lastTwitchTimeRef,
                   steps, timelineVars>>

\* the application calls stopAudio()
StopAudio == apiCalls < MaxApiCalls /\ StopAudioCall

\* (average / 255) * 100 of the analyser's spectrum: the level of the source
\* connected to it while that source plays, silence otherwise
RawAmplitude ==
    IF /\ sourceRef # 0
       /\ sources[sourceRef].state = "playing"
       /\ now - sources[sourceRef].startedAt < sources[sourceRef].speech.audioMs
    THEN sources[sourceRef].speech.level
    ELSE 0

\* one animation frame of the lip-sync loop
AnalyzeAudio ==
    /\ lipFrameRef = "due"
    /\ LET smoothedAmplitude == SmoothAmplitude(smoothedAmplitudeRef, RawAmplitude)
           currentTime == now - startTimeRef
           tick == IF UsePrecise(visemeCuesRef)
                   THEN PreciseSample(visemeCuesRef.cues, currentTime,
                                      previousJawRotationRef)
                   ELSE FallbackSample(smoothedAmplitude,
                                       previousJawRotationRef)
       IN  /\ smoothedAmplitudeRef' = smoothedAmplitude
           /\ currentViseme' = tick.viseme
           /\ jawRotation' = tick.jaw
           /\ previousJawRotationRef' = tick.previousJaw
           /\ mouthOpenness' = tick.openness
           /\ mouthShape' = tick.shape
           /\ lipFrameRef' = IF isPlayingRef THEN "requested" ELSE "none"
           /\ Render("analyzeAudio", isPlaying, smoothedAmplitude, currentTime,
                     gestureTriggers, FALSE, preset, FALSE)
    /\ UNCHANGED <<now, isPlayingRef, visemeCuesRef, startTimeRef, sourceRef,
                   audioVars, lastTwitchTimeRef, steps, apiCalls, timelineVars>>

\* updateGesture(timestamp): the callback of the gesture loop
UpdateGestureAt(timestamp) ==
    /\ LET gs == IF activeGesture = NoGesture \/ gestureStartTimeRef = Undef
                 THEN CurrentGestureState
                 ELSE AdvanceGesture(CurrentGestureState, timestamp)
       IN  /\ activeGesture' = gs.active
           /\ gestureStartTimeRef' = gs.start
           /\ gestureProgress' = gs.progress
           /\ gestureQueueRef' = gs.queue
    /\ gestureFrameRef' = "requested"
    /\ lastOp' = Op("updateGesture", <<>>, <<>>)
    /\ UNCHANGED <<now, lipState, lipRefs, audioVars, animationState, preset,
                   lastTwitchTimeRef, processedTriggersRef, steps, apiCalls,
                   firedLog, leftWindow, playLog, timelineVars>>

\* one animation frame of the gesture loop, its timestamp the reading of
\* performance.now() at the time the callback runs
UpdateGesture ==
    /\ gestureFrameRef = "due"
    /\ UpdateGestureAt(now)

\* gesture types a caller may pass; "wave" is not in the library
Requests ==
    {GestureCall("headNod", 1000), GestureCall("pointLeft", 1500),
     GestureCall("armFlailBoth", 1000), GestureCall("wave", 1000)}

\* queueGesture(type, intensity) called from outside the hook
CallQueueGesture(type, intensity) ==
    /\ apiCalls' = apiCalls + 1
    /\ CommitGesture(queueGesture(CurrentGestureState, activeGesture, type,
                                  intensity))
    /\ lastOp' = Op("queueGesture", <<GestureCall(type, intensity)>>, <<>>)
    /\ UNCHANGED <<now, lipState, lipRefs, audioVars, animationState, preset,
                   lastTwitchTimeRef, processedTriggersRef, steps, firedLog,
                   leftWindow, playLog, timelineVars>>

\* a caller of the hook calls queueGesture(type, intensity)
QueueGestureCall(type, intensity) ==
    apiCalls < MaxApiCalls /\ CallQueueGesture(type, intensity)

\* the interval test taking a twitchFrequency of 0 as no minimum interval
TwitchTooSoon_zeroIsNoLimit ==
    /\ preset.twitchFrequency # 0
    /\ (now - lastTwitchTimeRef) * preset.twitchFrequency < 10000

\* the interval test with an elapsed time equal to the interval refused
TwitchTooSoon_inclusive ==
    preset.twitchFrequency = 0
    \/ (now - lastTwitchTimeRef) * preset.twitchFrequency <= 10000

\* now - lastTwitchTimeRef.current < 1000 / preset.idle.twitchFrequency
\* (twitchFrequency in units of 0.1; 1000 / 0 is Infinity)
TwitchTooSoon ==
    preset.twitchFrequency = 0
    \/ (now - lastTwitchTimeRef) * preset.twitchFrequency < 10000

\* triggerRandomTwitch()
CallTriggerRandomTwitch(random) ==
    /\ apiCalls' = apiCalls + 1
    /\ IF TwitchTooSoon
       THEN /\ lastOp' = Op("triggerRandomTwitch", <<>>, <<>>)
            /\ UNCHANGED <<activeGesture, gestureStartTimeRef, gestureProgress,
                           gestureQueueRef, gestureFrameRef, lastTwitchTimeRef>>
       ELSE LET randomType == PickRandom(<<"headShake", "headNod">>, random)
            IN  /\ lastTwitchTimeRef' = now
                /\ CommitGesture(queueGesture(CurrentGestureState, activeGesture,
                                              randomType, preset.twitchIntensity))
                /\ lastOp' = Op("triggerRandomTwitch",
                                <<GestureCall(randomType,
                                              preset.twitchIntensity)>>, <<>>)
    /\ UNCHANGED <<now, lipState, lipRefs, audioVars, animationState, preset,
                   processedTriggersRef, steps, firedLog, leftWindow,
                   playLog, timelineVars>>

\* a caller of the hook calls triggerRandomTwitch()
TriggerRandomTwitch(random) ==
    apiCalls < MaxApiCalls /\ CallTriggerRandomTwitch(random)

\* setPreset(p)
CallSetPreset(p) ==
    /\ apiCalls' = apiCalls + 1
    /\ Render("setPreset", isPlaying, amplitude, playbackTime, gestureTriggers,
              FALSE, p, FALSE)
    /\ UNCHANGED <<now, mouthShape, mouthOpenness, currentViseme, jawRotation,
                   lipRefs, audioVars, lastTwitchTimeRef, steps, timelineVars>>

\* a caller of the hook calls setPreset(p)
SetPreset(p) == apiCalls < MaxApiCalls /\ CallSetPreset(p)

\* the timeline variables play no part in the engine
TimelineIdle ==
    /\ alignment = EmptyAlignment
    /\ filledCues = <<>>
    /\ sampled = NoSample
    /\ tpc = "input"
    /\ probe = NoProbe

Init == EngineInit /\ TimelineIdle

Next ==
    \/ \E ms \in FrameLengths : Advance(ms)
    \/ \E speech \in SpeechResults : PlayAudioBegin(speech)
    \/ PlayAudioFinish
    \/ \E k \in 1..Len(sources) : OnEnded(k)
    \/ StopAudio
    \/ AnalyzeAudio
    \/ UpdateGesture
    \/ \E call \in Requests : QueueGestureCall(call.type, call.intensity)
    \/ \E random \in RandomValues : TriggerRandomTwitch(random)
    \/ \E p \in Presets : SetPreset(p)

Spec == Init /\ [][Next]_vars

-----------------------------------------------------------------------------
(* The engine driven by playback calls only: playAudio and stopAudio, up to
   MaxPlaybackCalls of them, and no call of the gesture API *)

PlaybackPlayAudio(speech) ==
    apiCalls < MaxPlaybackCalls /\ PlayAudioCall(speech)

PlaybackStopAudio == apiCalls < MaxPlaybackCalls /\ StopAudioCall

PlaybackNext ==
    \/ \E ms \in FrameLengths : Advance(ms)
    \/ \E speech \in SpeechResults : PlaybackPlayAudio(speech)
    \/ PlayAudioFinish
    \/ \E k \in 1..Len(sources) : OnEnded(k)
    \/ PlaybackStopAudio
    \/ AnalyzeAudio
    \/ UpdateGesture

SpecPlayback == Init /\ [][PlaybackNext]_vars

-----------------------------------------------------------------------------
(* The engine playing one utterance, with or without cues, with a second
   playback call at most *)

SamplingSpeeches == SpeechResults \cup {SpokenWithEmptyAlignment}

SamplingPlayAudio(speech) ==
    apiCalls < MaxSamplingCalls /\ PlayAudioCall(speech)

SamplingStopAudio == apiCalls < MaxSamplingCalls /\ StopAudioCall

SamplingNext ==
    \/ \E ms \in FrameLengths : Advance(ms)
    \/ \E speech \in SamplingSpeeches : SamplingPlayAudio(speech)
    \/ PlayAudioFinish
    \/ \E k \in 1..Len(sources) : OnEnded(k)
    \/ SamplingStopAudio
    \/ AnalyzeAudio
    \/ UpdateGesture

SpecSampling == Init /\ [][SamplingNext]_vars

-----------------------------------------------------------------------------
(* The engine driven by the gesture API only, with no playback: setPreset,
   triggerRandomTwitch and queueGesture, up to MaxTwitchCalls calls, and
   frames long enough for the twitch interval to pass *)

\* a preset of the caller's own: one twitch every 0.5 s at most
CALLER_PRESET == Preset(20, 500, 300, 1000)

TwitchPresets == Presets \cup {CALLER_PRESET}

\* time between two frames, ms: a regular frame and a throttled one
TwitchFrameLengths == {100, 300}

TwitchRequests == {GestureCall("armFlailBoth", 1000)}

TwitchSetPreset(p) == apiCalls < MaxTwitchCalls /\ CallSetPreset(p)

TwitchCall(random) ==
    apiCalls < MaxTwitchCalls /\ CallTriggerRandomTwitch(random)

TwitchQueueGesture(type, intensity) ==
    apiCalls < MaxTwitchCalls /\ CallQueueGesture(type, intensity)

TwitchNext ==
    \/ \E ms \in TwitchFrameLengths : Advance(ms)
    \/ UpdateGesture
    \/ \E p \in TwitchPresets : TwitchSetPreset(p)
    \/ \E random \in RandomValues : TwitchCall(random)
    \/ \E call \in TwitchRequests : TwitchQueueGesture(call.type, call.intensity)

SpecTwitch == Init /\ [][TwitchNext]_vars

-----------------------------------------------------------------------------
(* Specification of the timeline functions *)

TInit ==
    /\ alignment \in AlignmentInputs
    /\ filledCues = <<>>
    /\ sampled = NoSample
    /\ tpc = "input"
    /\ probe = NoProbe
    /\ EngineInit

Generate ==
    /\ tpc = "input"
    /\ filledCues' = generateVisemeTimeline(alignment)
    /\ tpc' = "built"
    /\ UNCHANGED <<alignment, sampled, probe, engineVars>>

Sample ==
    /\ tpc = "built"
    /\ \E t \in SampleTimes(filledCues) :
          sampled' = [time |-> t, result |-> getVisemeAtTime(filledCues, t)]
    /\ tpc' = "sampled"
    /\ UNCHANGED <<alignment, filledCues, probe, engineVars>>

\* findCueIndexAtTime on the timeline just built
Search ==
    /\ tpc = "built"
    /\ \E t \in SampleTimes(filledCues) :
          probe' = [op |-> "search", time |-> t,
                    found |-> findCueIndexAtTime(filledCues, t)]
    /\ tpc' = "searched"
    /\ UNCHANGED <<alignment, filledCues, sampled, engineVars>>

TNext == Generate \/ Sample \/ Search

SpecTimeline == TInit /\ [][TNext]_vars

-----------------------------------------------------------------------------
(* The gesture machine with frames that keep coming: queueGesture is called
   up to MaxLiveCalls times during the first MaxRequestSteps frames, and the
   frames go on for long enough after that to play everything requested *)

LiveRequests ==
    {GestureCall("armFlailBoth", 1000), GestureCall("headNod", 1000),
     GestureCall("pointLeft", 1500)}

\* the longest gesture requested and the shortest frame, ms
LongestRequest ==
    CHOOSE d \in {GESTURE_LIBRARY(call.type).duration : call \in LiveRequests} :
        \A call \in LiveRequests : GESTURE_LIBRARY(call.type).duration <= d

ShortestFrame ==
    CHOOSE ms \in TwitchFrameLengths : \A other \in TwitchFrameLengths : ms <= other

\* frames of the run: those during which requests are made, and enough frames
\* after them to play MaxLiveCalls gestures one after the other
LiveSteps ==
    MaxRequestSteps + (MaxLiveCalls * LongestRequest) \div ShortestFrame + 2

LiveFrame(ms) == steps < LiveSteps /\ NextFrame(ms)

LiveQueueGesture(type, intensity) ==
    /\ apiCalls < MaxLiveCalls
    /\ steps < MaxRequestSteps
    /\ CallQueueGesture(type, intensity)

LiveNext ==
    \/ \E ms \in TwitchFrameLengths : LiveFrame(ms)
    \/ UpdateGesture
    \/ \E call \in LiveRequests : LiveQueueGesture(call.type, call.intensity)

\* every callback of the gesture loop requests the next frame, and the browser
\* keeps delivering frames
LiveFairness ==
    /\ WF_vars(UpdateGesture)
    /\ WF_vars(\E ms \in TwitchFrameLengths : LiveFrame(ms))

SpecLive == Init /\ [][LiveNext]_vars /\ LiveFairness

-----------------------------------------------------------------------------
(* The gesture machine with the frame callback's timestamp taken at the start
   of the frame: the callback runs later in the frame, after handlers that read
   performance.now() *)

\* time between the start of a frame and the run of its callbacks, ms
FrameLags == {0, 100}

\* time between two runs of the callbacks, ms
LaggedFrameLengths == {50, 100}

LaggedUpdateGesture(lag) ==
    /\ gestureFrameRef = "due"
    /\ UpdateGestureAt(now - lag)

LaggedQueueGesture(type, intensity) ==
    apiCalls < MaxLaggedCalls /\ CallQueueGesture(type, intensity)

LaggedNext ==
    \/ \E ms \in LaggedFrameLengths : Advance(ms)
    \/ \E lag \in FrameLags : LaggedUpdateGesture(lag)
    \/ \E call \in LiveRequests : LaggedQueueGesture(call.type, call.intensity)

SpecLagged == Init /\ [][LaggedNext]_vars

-----------------------------------------------------------------------------
(* The numeric functions of the lip-sync loop, each run one call on drawn
   arguments *)

Visemes ==
    {"sil", "PP", "FF", "TH", "DD", "kk", "CH", "SS", "nn", "RR", "aa", "E",
     "I", "O", "U"}

ProgressValues == {Frac(k, ProgressSteps) : k \in 0..ProgressSteps}

\* amplitudes 0, 0.5, 1, ... MaxAmplitude, in units of 0.01
AmplitudeValues == {50 * k : k \in 0..(2 * MaxAmplitude)}

\* values of previousJawRotationRef: the closed jaw and the widest one
PreviousJawValues == {0, VISEME_JAW_ROTATION("aa")}

\* getInterpolatedJawRotation(cur, next, progress)
Interpolate(cur, next, progress) ==
    /\ probe = NoProbe
    /\ probe' = [op |-> "jaw", cur |-> cur, next |-> next,
                 progress |-> progress,
                 value |-> getInterpolatedJawRotation(cur, next, progress)]
    /\ UNCHANGED <<alignment, filledCues, sampled, tpc, engineVars>>

\* the fallback branch of analyzeAudio on a smoothed amplitude
Fallback(smoothedAmplitude, previousJaw) ==
    /\ probe = NoProbe
    /\ probe' = [op |-> "fallback", amplitude |-> smoothedAmplitude,
                 previousJaw |-> previousJaw,
                 sample |-> FallbackSample(smoothedAmplitude, previousJaw)]
    /\ UNCHANGED <<alignment, filledCues, sampled, tpc, engineVars>>

\* keyframe times of gestures outside the library: none, one, keyframes not
\* covering 0..1, two keyframes at one time, keyframes out of time order
OtherKeyframeTimes ==
    {<<>>, <<50>>, <<20, 50, 80>>, <<50, 50, 100>>, <<0, 70, 30, 100>>,
     <<60, 40>>}

KeyframeInputs == {KeyframeTimes(type) : type \in GestureTypes} \cup OtherKeyframeTimes

\* the progress values of the grid and the times of the keyframes themselves
ProgressInputs(times) ==
    ProgressValues \cup {Frac(times[i], 100) : i \in 1..Len(times)}

\* getGestureRotations(gesture, progress)
GestureRotations(times, progress) ==
    /\ probe = NoProbe
    /\ probe' = [op |-> "rotations", times |-> times, progress |-> progress,
                 result |-> getGestureRotations(times, progress)]
    /\ UNCHANGED <<alignment, filledCues, sampled, tpc, engineVars>>

\* pairs of keyframes outside the library: a bone in both with an axis in both,
\* an axis in the first only and an axis in the second only, a bone in one
\* keyframe only, and a bone named twice in one keyframe
KeyframePairs ==
    {<<Keyframe(0, <<Rot("head", "x" :> 10 @@ "y" :> 20),
                     Rot("neck", "z" :> 30)>>),
       Keyframe(100, <<Rot("head", "x" :> 50 @@ "z" :> (0 - 40)),
                       Rot("spine", "y" :> 10)>>)>>,
     <<Keyframe(0, <<Rot("head", "x" :> 10), Rot("head", "x" :> 90)>>),
       Keyframe(100, <<Rot("head", "x" :> (0 - 30))>>)>>}

\* intensities of a request, in units of 0.001: 1.0 of an emphasis trigger,
\* the exclamationIntensity of the presets, and a caller's 0.5
RotationIntensities ==
    {1000, 500} \cup {p.exclamationIntensity : p \in Presets}

\* interpolateKeyframes(kf1, kf2, progress)
InterpolateKeyframes(kf1, kf2, progress) ==
    /\ probe = NoProbe
    /\ probe' = [op |-> "keyframes", type |-> "none", progress |-> progress,
                 kf1 |-> kf1, kf2 |-> kf2,
                 localProgress |-> progress, intensity |-> 1000,
                 rotations |-> interpolateKeyframes(kf1, kf2, progress)]
    /\ UNCHANGED <<alignment, filledCues, sampled, tpc, engineVars>>

\* getCurrentGestureRotations() with an active gesture of the library at a
\* gesture progress; the probe keeps the keyframes getGestureRotations chose
GetCurrentGestureRotations(active, progress) ==
    /\ probe = NoProbe
    /\ LET keyframes == KeyframesOf(active.type)
           chosen == getGestureRotations(KeyframeTimes(active.type), progress)
       IN  probe' = [op |-> "keyframes", type |-> active.type,
                     progress |-> progress,
                     kf1 |-> keyframes[chosen.kf1 + 1],
                     kf2 |-> keyframes[chosen.kf2 + 1],
                     localProgress |-> chosen.localProgress,
                     intensity |-> active.intensity,
                     rotations |->
                         getCurrentGestureRotations(active, progress).rotations]
    /\ UNCHANGED <<alignment, filledCues, sampled, tpc, engineVars>>

\* arguments of the noise functions: x and time in quarters from 0 to 2
NoiseArguments == {Frac(a, 4) : a \in 0..8}

\* seeds: the default 0 and the 12345 of getRandomImpulse
NoiseSeeds == {0, 12345}

\* octaves: one, two, and the default three
OctaveCounts == 1..3

\* persistence: the default 0.5, and 1 and 2
PersistenceValues == {Frac(1, 2), Frac(1, 1), Frac(2, 1)}

\* impulse frequencies per time unit; 0 is the twitchFrequency of the Calm
\* Friendly preset
ImpulseFrequencies == {0, 1, 2}

\* the default decay 0.9, and 0
DecayValues == {Frac(9, 10), Frac(0, 1)}

\* noise(x, seed)
Noise(x, seed) ==
    /\ probe = NoProbe
    /\ probe' = [op |-> "noise", x |-> x, seed |-> seed,
                 value |-> noise(x, seed)]
    /\ UNCHANGED <<alignment, filledCues, sampled, tpc, engineVars>>

\* fbmNoise(x, octaves, persistence, seed) with the default seed
FbmNoise(x, octaves, persistence) ==
    /\ probe = NoProbe
    /\ probe' = [op |-> "fbmNoise", x |-> x, octaves |-> octaves,
                 persistence |-> persistence,
                 value |-> fbmNoise(x, octaves, persistence, 0)]
    /\ UNCHANGED <<alignment, filledCues, sampled, tpc, engineVars>>

\* getRandomImpulse(time, frequency, decay)
RandomImpulse(time, frequency, decay) ==
    /\ probe = NoProbe
    /\ probe' = [op |-> "impulse", time |-> time, frequency |-> frequency,
                 decay |-> decay,
                 impulseNoise |-> noise(Times(time, Whole(frequency)), 12345),
                 value |-> getRandomImpulse(time, frequency, decay)]
    /\ UNCHANGED <<alignment, filledCues, sampled, tpc, engineVars>>

NNext ==
    \/ \E x \in NoiseArguments, seed \in NoiseSeeds : Noise(x, seed)
    \/ \E x \in NoiseArguments, octaves \in OctaveCounts,
          persistence \in PersistenceValues : FbmNoise(x, octaves, persistence)
    \/ \E time \in NoiseArguments, frequency \in ImpulseFrequencies,
          decay \in DecayValues : RandomImpulse(time, frequency, decay)
    \/ \E pair \in KeyframePairs, progress \in ProgressValues :
          InterpolateKeyframes(pair[1], pair[2], progress)
    \/ \E type \in GestureTypes, intensity \in RotationIntensities :
          \E progress \in ProgressInputs(KeyframeTimes(type)) :
             GetCurrentGestureRotations(Gesture(type, intensity), progress)
    \/ \E times \in KeyframeInputs :
          \E progress \in ProgressInputs(times) :
             GestureRotations(times, progress)
    \/ \E cur \in Visemes, next \in Visemes \cup {Null},
          progress \in ProgressValues : Interpolate(cur, next, progress)
    \/ \E a \in AmplitudeValues, j \in PreviousJawValues : Fallback(a, j)

SpecNumerics == Init /\ [][NNext]_vars

-----------------------------------------------------------------------------
(* Properties of the timeline builder and sampler *)

\* generateVisemeTimeline has just returned
Built == tpc = "built"

NumChars == Len(alignment.characters)

\* every entry of the input has valid timing (start < end)
AllValid ==
    \A i \in 1..NumChars :
        ~InvalidTiming(alignment.character_start_times_seconds[i],
                       alignment.character_end_times_seconds[i])

\* the valid input spans, in input order, and the merged spans
InRaw == RawCues(alignment)
InMerged == MergeCues(InRaw)

\* every valid input span starts at or after the end of the one before it
InputOrdered ==
    \A i \in 1..(Len(InRaw) - 1) : InRaw[i + 1].startTime >= InRaw[i].endTime

LastEnd == alignment.character_end_times_seconds[NumChars]

Pairs(cs) == 1..(Len(cs) - 1)

\* C1 as stated: for every input whose entries all have valid timing the
\* timeline is contiguous from 0 to the final character's end time: it starts
\* at 0, every cue starts exactly where the one before it ends, start times
\* are non-decreasing and the last cue ends at the final character's end.
C1_Original ==
    (Built /\ NumChars > 0 /\ AllValid) =>
        /\ Len(filledCues) > 0
        /\ filledCues[1].startTime = 0
        /\ \A i \in Pairs(filledCues) :
              /\ filledCues[i + 1].startTime = filledCues[i].endTime
              /\ filledCues[i + 1].startTime >= filledCues[i].startTime
        /\ filledCues[Len(filledCues)].endTime = LastEnd

\* C1 as amended: for every input whose entries all have valid timing the
\* timeline starts at 0 and ends at the final character's end time, and every
\* cue starts at most 10 ms after the end of the one before it (a gap of up
\* to 10 ms is left unfilled); when no input span starts before the end of
\* the span before it, no two cues overlap and start times are non-decreasing.
C1_ContiguousUpToFillGap ==
    (Built /\ NumChars > 0 /\ AllValid) =>
        /\ Len(filledCues) > 0
        /\ filledCues[1].startTime = 0
        /\ filledCues[Len(filledCues)].endTime = LastEnd
        /\ \A i \in Pairs(filledCues) :
              filledCues[i + 1].startTime <= filledCues[i].endTime + FILL_GAP_MS
        /\ InputOrdered =>
              \A i \in Pairs(filledCues) :
                  /\ filledCues[i + 1].startTime >= filledCues[i].endTime
                  /\ filledCues[i + 1].startTime >= filledCues[i].startTime

\* C1 witness: a timeline built from three valid, ordered spans that has a
\* prepended silence, a filled gap and an unfilled gap of 10 ms
C1_Witness ==
    /\ Built /\ AllValid /\ InputOrdered /\ NumChars = 3
    /\ filledCues[1] = Cue("sil", 0, 20)
    /\ \E i \in Pairs(filledCues) :
          filledCues[i + 1].startTime = filledCues[i].endTime + FILL_GAP_MS
    /\ \E i \in Pairs(filledCues) :
          /\ i > 1
          /\ filledCues[i].viseme = "sil"
          /\ filledCues[i].endTime - filledCues[i].startTime = 20

\* the cues of the timeline that contain time t
Containing(t) ==
    {i \in 1..Len(filledCues) :
        t >= filledCues[i].startTime /\ t < filledCues[i].endTime}

Min(S) == CHOOSE x \in S : \A y \in S : x <= y

Sampled == tpc = "sampled"

InUnit(p) == 0 <= p.num /\ p.num <= p.den /\ p.den > 0

TwoSpans == Len(InRaw) = 2 /\ InRaw[1].viseme = InRaw[2].viseme

SpanGap == InRaw[2].startTime - InRaw[1].endTime

\* the silence the builder prepends before a first span starting after 0
Leading(cue) ==
    IF cue.startTime > 0 THEN <<Cue("sil", 0, cue.startTime)>> ELSE <<>>

OneEvent ==
    filledCues =
        Leading(InRaw[1])
        \o <<Cue(InRaw[1].viseme, InRaw[1].startTime, InRaw[2].endTime)>>

TwoEvents ==
    \E i, j \in 1..Len(filledCues) :
        i < j /\ filledCues[i] = InRaw[1] /\ filledCues[j] = InRaw[2]

\* C8 as stated: two adjacent same-category spans whose gap (next start minus
\* previous end) is below 50 ms give one cue from the first start to the
\* second end; with a gap of 50 ms or more they give two cues.
C8_Original ==
    (Built /\ TwoSpans) =>
        /\ SpanGap < MERGE_GAP_MS => OneEvent
        /\ SpanGap >= MERGE_GAP_MS => TwoEvents

\* C8 as amended: two adjacent same-category spans whose distance |next start
\* minus previous end| is below 50 ms give one cue from the first start to
\* the second end; with a distance of 50 ms or more (a gap, or an overlap,
\* of at least 50 ms) they give two cues.
C8_MergeWithinAbsGap ==
    (Built /\ TwoSpans) =>
        /\ Abs(SpanGap) < MERGE_GAP_MS => OneEvent
        /\ Abs(SpanGap) >= MERGE_GAP_MS => TwoEvents /\ ~OneEvent

\* C8 witness: two same-category spans exactly 50 ms apart, kept as two cues
C8_Witness ==
    /\ Built /\ TwoSpans /\ SpanGap = MERGE_GAP_MS
    /\ Len(filledCues) = 3

\* C8 second witness: two same-category spans 20 ms apart, merged into one cue
C8_WitnessMerged ==
    /\ Built /\ TwoSpans /\ SpanGap = 20
    /\ Len(filledCues) = 1

\* the number of gaps above 10 ms between consecutive merged spans
BigGaps ==
    {k \in Pairs(InMerged) :
        InMerged[k + 1].startTime > InMerged[k].endTime + 10}

\* C9: between two consecutive merged spans more than 10 ms apart exactly one
\* silence cue is inserted, from the earlier span's end to the later span's
\* start; a first span starting after 0 is preceded by a silence cue over
\* [0, firstStart); no other cue is added.
C9_SilenceFillsGap ==
    (Built /\ NumChars > 0) =>
        /\ \A k \in Pairs(InMerged) :
              IF InMerged[k + 1].startTime > InMerged[k].endTime + 10
              THEN \E j \in 1..(Len(filledCues) - 2) :
                      /\ filledCues[j] = InMerged[k]
                      /\ filledCues[j + 1] =
                            Cue("sil", InMerged[k].endTime,
                                InMerged[k + 1].startTime)
                      /\ filledCues[j + 2] = InMerged[k + 1]
              ELSE \E j \in Pairs(filledCues) :
                      /\ filledCues[j] = InMerged[k]
                      /\ filledCues[j + 1] = InMerged[k + 1]
        /\ (Len(InMerged) > 0 /\ InMerged[1].startTime > 0) =>
              /\ filledCues[1] = Cue("sil", 0, InMerged[1].startTime)
              /\ filledCues[2] = InMerged[1]
        /\ Len(filledCues) =
              Len(InMerged) + Cardinality(BigGaps)
              + (IF Len(InMerged) > 0 /\ InMerged[1].startTime > 0
                 THEN 1 ELSE 0)

\* C9 witness: a 20 ms gap between cues of different categories, filled by
\* one silence cue of 20 ms, after a prepended silence
C9_Witness ==
    /\ Built
    /\ Len(filledCues) = 4
    /\ filledCues[1].viseme = "sil" /\ filledCues[1].startTime = 0
    /\ filledCues[2].viseme = "aa"
    /\ filledCues[3] = Cue("sil", filledCues[2].endTime,
                           filledCues[2].endTime + 20)
    /\ filledCues[4].viseme = "I"

\* C10: for an input with at least one character the timeline has at most
\* twice as many cues as the input has characters.
C10_AtMostTwicePerChar ==
    (Built /\ NumChars > 0) => Len(filledCues) <= 2 * NumChars

\* C10 witness: a timeline with exactly twice as many cues as characters
C10_Witness ==
    /\ Built /\ NumChars >= 2
    /\ Len(filledCues) = 2 * NumChars

-----------------------------------------------------------------------------
(* Properties of the engine *)

\* the requests of the last step whose type is in the gesture library
ValidCalls(op) == SelectSeq(op.calls, LAMBDA c : c.type \in GestureTypes)

GestureOf(call) == Gesture(call.type, call.intensity)

RECURSIVE GesturesOf(_)
GesturesOf(calls) ==
    IF calls = <<>> THEN <<>>
    ELSE <<GestureOf(Head(calls))>> \o GesturesOf(Tail(calls))

Last(seq) == seq[Len(seq)]

\* C2 as stated: after stopAudio the event sequence is cleared, no gesture is
\* active, the gesture queue is empty, the trigger-dedup set is empty and both
\* accumulators are 0.
C2_Original ==
    lastOp.op = "stopAudio" =>
        /\ visemeCuesRef = NullCues
        /\ activeGesture = NoGesture
        /\ gestureQueueRef = <<>>
        /\ processedTriggersRef = {}
        /\ smoothedAmplitudeRef = 0
        /\ previousJawRotationRef = 0

\* C3: a step that calls queueGesture while a gesture is active: a request
\* whose priority is strictly greater than the active gesture's becomes the
\* active gesture with progress 0 and start time now, and the queue is left as
\* it was (the preempted gesture is not queued); a request of equal or lower
\* priority is appended to the tail of the queue and the active gesture, its
\* start time and its progress stay as they were.
C3_PreemptIffHigherPriority ==
    [][(activeGesture # NoGesture /\ ValidCalls(lastOp') # <<>>) =>
          LET higher == SelectSeq(ValidCalls(lastOp'),
                            LAMBDA c : GESTURE_LIBRARY(c.type).priority
                                         > PriorityOf(activeGesture))
              others == SelectSeq(ValidCalls(lastOp'),
                            LAMBDA c : GESTURE_LIBRARY(c.type).priority
                                         <= PriorityOf(activeGesture))
          IN  /\ gestureQueueRef' = gestureQueueRef \o GesturesOf(others)
              /\ IF higher # <<>>
                 THEN /\ activeGesture' = GestureOf(Last(higher))
                      /\ gestureProgress' = Zero
                      /\ gestureStartTimeRef' = now'
                 ELSE /\ activeGesture' = activeGesture
                      /\ gestureProgress' = gestureProgress
                      /\ gestureStartTimeRef' = gestureStartTimeRef]_vars

\* a request of strictly higher priority has just preempted an active gesture
C3_Witness ==
    /\ lastOp.op = "queueGesture"
    /\ activeGesture = Gesture("armFlailBoth", 1000)
    /\ gestureStartTimeRef = now
    /\ gestureProgress = Zero
    /\ gestureQueueRef = <<Gesture("headNod", 1000)>>

\* C4: a step that calls queueGesture while no gesture is active: the requested
\* gesture is the active gesture afterwards, with progress 0 and start time
\* now, and the queue is left as it was.
C4_StartsWhenIdle ==
    [][(activeGesture = NoGesture /\ ValidCalls(lastOp') # <<>>) =>
          /\ activeGesture' = GestureOf(Last(ValidCalls(lastOp')))
          /\ gestureProgress' = Zero
          /\ gestureStartTimeRef' = now'
          /\ gestureQueueRef' = gestureQueueRef]_vars

\* a request made while no gesture was active has just become active
C4_Witness ==
    /\ lastOp.op = "queueGesture"
    /\ Len(lastOp.calls) = 1
    /\ activeGesture = Gesture("pointLeft", 1500)
    /\ gestureStartTimeRef = now
    /\ gestureProgress = Zero
    /\ gestureQueueRef = <<>>

\* the active gesture's progress reaches 1 at the frame running now
Completes ==
    /\ activeGesture # NoGesture
    /\ gestureStartTimeRef # Undef
    /\ now - gestureStartTimeRef >= activeGesture.duration

\* C5: a frame of the gesture loop in which the active gesture's progress
\* reaches 1: with a non-empty queue the head of the queue is removed and is the
\* active gesture, with start time now and progress 0, the rest of the queue
\* keeps its order; with an empty queue no gesture is active afterwards.
C5_CompletionDequeuesHead ==
    [][(lastOp'.op = "updateGesture" /\ Completes) =>
          /\ gestureProgress' = Zero
          /\ IF gestureQueueRef # <<>>
             THEN /\ activeGesture' = Head(gestureQueueRef)
                  /\ gestureQueueRef' = Tail(gestureQueueRef)
                  /\ gestureStartTimeRef' = now'
             ELSE /\ activeGesture' = NoGesture
                  /\ gestureQueueRef' = <<>>
                  /\ gestureStartTimeRef' = Undef]_vars

\* a frame has just completed a gesture and started the head of a queue that
\* held two gestures
C5_Witness ==
    /\ lastOp.op = "updateGesture"
    /\ activeGesture # NoGesture
    /\ gestureStartTimeRef = now
    /\ Len(gestureQueueRef) = 1
    /\ gestureQueueRef[1] # activeGesture

\* C6: among the triggers fired since the utterance was handed to playAudio, no
\* trigger occurs twice.
C6_FiresAtMostOnce ==
    \A i, j \in 1..Len(firedLog) :
        firedLog[i].index = firedLog[j].index => i = j

\* a trigger has fired, playback time has since been outside its window and is
\* inside it again, and the trigger effect has just run on it
C6_Witness ==
    /\ lastOp.op = "analyzeAudio"
    /\ isPlaying
    /\ \E i \in 1..Len(firedLog) :
          /\ firedLog[i].trigger.time \in leftWindow
          /\ InWindow(playbackTime, firedLog[i].trigger.time)
          /\ firedLog[i].index \in 1..Len(gestureTriggers)
          /\ gestureTriggers[firedLog[i].index] = firedLog[i].trigger

-----------------------------------------------------------------------------
(* Further properties of the timeline functions *)

\* the positions of the input with valid timing, in order
ValidPositions ==
    SelectSeq([i \in 1..NumChars |-> i],
              LAMBDA i : ~InvalidTiming(alignment.character_start_times_seconds[i],
                                        alignment.character_end_times_seconds[i]))

\* positions i, i + 1 with valid timing whose characters form a digraph
DigraphAt(i) ==
    /\ i \in 1..(NumChars - 1)
    /\ getVisemeAtIndex(alignment.characters, i).consumedDigraph
    /\ \E k \in 1..(Len(ValidPositions) - 1) :
          ValidPositions[k] = i /\ ValidPositions[k + 1] = i + 1

WellTimed(i) ==
    /\ alignment.character_start_times_seconds[i] # Undef
    /\ alignment.character_end_times_seconds[i] # Undef
    /\ alignment.character_start_times_seconds[i]
          < alignment.character_end_times_seconds[i]

WellTimedPositions == SelectSeq([i \in 1..NumChars |-> i], WellTimed)

\* the input with the entries removed that are not well timed
WithoutMalformed ==
    [characters |->
        [k \in 1..Len(WellTimedPositions) |->
            alignment.characters[WellTimedPositions[k]]],
     character_start_times_seconds |->
        [k \in 1..Len(WellTimedPositions) |->
            alignment.character_start_times_seconds[WellTimedPositions[k]]],
     character_end_times_seconds |->
        [k \in 1..Len(WellTimedPositions) |->
            alignment.character_end_times_seconds[WellTimedPositions[k]]]]

\* C12: the timeline built from an input equals the timeline built from the
\* input without its malformed entries (start undefined, or start >= end), and
\* it is empty for an empty input and for an input with no well-timed entry.
C12_MalformedEntriesSkipped ==
    Built =>
        /\ filledCues = generateVisemeTimeline(WithoutMalformed)
        /\ WellTimedPositions = <<>> => filledCues = <<>>

\* an input with an undefined start, an entry with start = end and a well-timed
\* entry was built into a non-empty timeline
C12_Witness ==
    /\ Built
    /\ filledCues # <<>>
    /\ \E i, j \in 1..NumChars :
          /\ alignment.character_start_times_seconds[i] = Undef
          /\ alignment.character_start_times_seconds[j] # Undef
          /\ alignment.character_start_times_seconds[j]
                = alignment.character_end_times_seconds[j]

\* an input whose entries are all malformed was built into the empty timeline
C12_WitnessAllMalformed ==
    /\ Built
    /\ NumChars > 0
    /\ WellTimedPositions = <<>>
    /\ filledCues = <<>>

-----------------------------------------------------------------------------
(* Further properties of the engine *)

\* C13: in every state the coarse animation state is the one (isPlaying,
\* amplitude) determine: idle when not playing, and then the trigger-dedup set
\* is empty; agitated when playing with amplitude > 60; speaking when playing
\* with amplitude <= 60.
C13_CoarseStateOfInputs ==
    /\ ~isPlaying => animationState = "idle" /\ processedTriggersRef = {}
    /\ isPlaying /\ amplitude > 6000 => animationState = "agitated"
    /\ isPlaying /\ amplitude <= 6000 => animationState = "speaking"

\* a sampling tick has raised the amplitude above 60 during playback, after
\* triggers were consumed while the state was speaking
C13_Witness ==
    /\ lastOp.op = "analyzeAudio"
    /\ isPlaying
    /\ amplitude > 6000
    /\ animationState = "agitated"
    /\ processedTriggersRef # {}

\* playback has ended after triggers were consumed, and the state is idle again
\* the sample analyzeAudio produces for the utterance speech from the state of
\* a new engine: both accumulators 0, the cues of speech stored
FreshSample(speech, currentTime, raw) ==
    IF UsePrecise(VisemeCuesOf(speech))
    THEN PreciseSample(VisemeCuesOf(speech).cues, currentTime, 0)
    ELSE FallbackSample(SmoothAmplitude(0, raw), 0)

FirstSampleAfterRestart ==
    /\ lastOp.op = "analyzeAudio"
    /\ playLog.restarted
    /\ playLog.samples = 1
    /\ sourceRef # 0

\* C14 as stated: the first sample after stopAudio and a later playAudio is
\* the sample a new engine produces for the same utterance at the same
\* playback time and amplitude
C14_Original ==
    FirstSampleAfterRestart =>
        LET fresh == FreshSample(sources[sourceRef].speech,
                                 now - startTimeRef, RawAmplitude)
        IN  /\ currentViseme = fresh.viseme
            /\ jawRotation = fresh.jaw
            /\ mouthOpenness = fresh.openness
            /\ mouthShape = fresh.shape

JawProbe == probe.op = "jaw"

\* C15: below progress 0.7, or without a next viseme, the jaw is the table
\* value of the current viseme; from 0.7 on it is
\* current + (next - current) * (1 - (1 - t)^2) with t = (progress - 0.7) / 0.3,
\* written here as t * (2 - t); that is the current value at 0.7 and the next
\* viseme's value at 1
C15_JawInterpolation ==
    JawProbe =>
        LET n == probe.progress.num
            d == probe.progress.den
            current == VISEME_JAW_ROTATION(probe.cur)
        IN  IF probe.next = Null \/ 10 * n < 7 * d
            THEN probe.value = current
            ELSE LET nextValue == VISEME_JAW_ROTATION(probe.next)
                     tNum == 10 * n - 7 * d
                     tDen == 3 * d
                 IN  /\ probe.value =
                          current + ((nextValue - current) * tNum
                                        * (2 * tDen - tNum)) \div (tDen * tDen)
                     /\ 10 * n = 7 * d => probe.value = current
                     /\ n = d => probe.value = nextValue

C15_Witness ==
    /\ JawProbe
    /\ probe.next # Null
    /\ 10 * probe.progress.num > 7 * probe.progress.den
    /\ probe.progress.num < probe.progress.den
    /\ probe.value > VISEME_JAW_ROTATION(probe.cur)
    /\ probe.value < VISEME_JAW_ROTATION(probe.next)

C15_WitnessThreshold ==
    /\ JawProbe
    /\ probe.next # Null
    /\ 10 * probe.progress.num = 7 * probe.progress.den
    /\ VISEME_JAW_ROTATION(probe.next) # VISEME_JAW_ROTATION(probe.cur)
    /\ probe.value = VISEME_JAW_ROTATION(probe.cur)

FallbackProbe == probe.op = "fallback"

\* C16: in the amplitude fallback, with a the amplitude on the 0..100 scale
\* (probe.amplitude = 100 a): the bucket is closed below 15, small below 35,
\* medium below 60, else wide; openness is a / 80 clamped to 0..1 and the
\* category is sil below 0.1, SS below 0.2, I below 0.35, E below 0.5,
\* O below 0.7, else aa; the jaw is the table value of the category whatever
\* the previous jaw was, and the previous jaw is left alone
C16_FallbackMapping ==
    FallbackProbe =>
        LET a == probe.amplitude
            out == probe.sample
            bucket == IF a < 1500 THEN "closed"
                      ELSE IF a < 3500 THEN "small"
                      ELSE IF a < 6000 THEN "medium"
                      ELSE "wide"
            category == IF a < 800 THEN "sil"
                        ELSE IF a < 1600 THEN "SS"
                        ELSE IF a < 2800 THEN "I"
                        ELSE IF a < 4000 THEN "E"
                        ELSE IF a < 5600 THEN "O"
                        ELSE "aa"
        IN  /\ out.shape = bucket
            /\ out.openness = (IF a >= 8000 THEN 1000 ELSE a \div 8)
            /\ out.viseme = category
            /\ out.jaw = VISEME_JAW_ROTATION(category)
            /\ out.previousJaw = probe.previousJaw
            /\ a = 5000 =>
                  out.openness = 625 /\ out.viseme = "O" /\ out.shape = "medium"

C16_Witness ==
    /\ FallbackProbe
    /\ probe.amplitude = 5000
    /\ probe.previousJaw = VISEME_JAW_ROTATION("aa")
    /\ probe.sample.viseme = "O"
    /\ probe.sample.jaw = VISEME_JAW_ROTATION("O")
    /\ probe.sample.shape = "medium"

\* the step is a call of triggerRandomTwitch
TwitchStep == apiCalls' = apiCalls + 1 /\ lastOp'.op = "triggerRandomTwitch"

\* C17: a call of triggerRandomTwitch less than 1000 / twitchFrequency ms after
\* the last accepted twitch (twitchFrequency 0: at any time) changes neither
\* the active gesture, nor the queue, nor the last-twitch time; otherwise it
\* sets the last-twitch time to now and makes one request, headShake or
\* headNod at the preset's twitch intensity, which becomes active when no
\* gesture is active or its priority is higher than the active one's, and is
\* appended to the queue if not
C17_TwitchInterval ==
    [][TwitchStep =>
          LET elapsed == now - lastTwitchTimeRef
              elapsedEnough ==
                  /\ preset.twitchFrequency > 0
                  /\ elapsed * preset.twitchFrequency >= 10 * 1000
          IN  IF ~elapsedEnough
              THEN /\ lastOp'.calls = <<>>
                   /\ UNCHANGED <<activeGesture, gestureQueueRef,
                                  gestureStartTimeRef, gestureProgress,
                                  lastTwitchTimeRef>>
              ELSE /\ lastTwitchTimeRef' = now
                   /\ Len(lastOp'.calls) = 1
                   /\ LET call == lastOp'.calls[1]
                      IN  /\ call.type \in {"headShake", "headNod"}
                          /\ call.intensity = preset.twitchIntensity
                          /\ IF \/ activeGesture = NoGesture
                                \/ GESTURE_LIBRARY(call.type).priority
                                      > PriorityOf(activeGesture)
                             THEN /\ activeGesture' = GestureOf(call)
                                  /\ gestureStartTimeRef' = now
                                  /\ gestureQueueRef' = gestureQueueRef
                             ELSE /\ activeGesture' = activeGesture
                                  /\ gestureQueueRef' =
                                        Append(gestureQueueRef, GestureOf(call))
         ]_vars

\* a twitch refused inside the interval that an accepted twitch opened
C17_Witness ==
    /\ lastOp.op = "triggerRandomTwitch"
    /\ lastOp.calls = <<>>
    /\ preset.twitchFrequency > 0
    /\ lastTwitchTimeRef >= MountTime
    /\ now > lastTwitchTimeRef

\* a second twitch accepted after the interval, queued behind an active gesture
C17_WitnessAccepted ==
    /\ lastOp.op = "triggerRandomTwitch"
    /\ lastOp.calls # <<>>
    /\ lastTwitchTimeRef = now
    /\ now >= MountTime + 500
    /\ gestureQueueRef # <<>>

\* the step is one frame of analyzeAudio
AnalyzeStep == lipFrameRef = "due" /\ lastOp'.op = "analyzeAudio"

\* C18: a frame of analyzeAudio publishes the precise sample (the cue at the
\* playback time, its jaw smoothed against the previous frame) exactly when
\* the stored event sequence is present and not empty, and the amplitude
\* fallback when it is null or empty; in both cases the frame publishes
\* amplitude and playback time and asks for the next frame while playing
C18_ModeByStoredSequence ==
    [][AnalyzeStep =>
          LET stored == ~visemeCuesRef.null /\ visemeCuesRef.cues # <<>>
              currentTime == now - startTimeRef
          IN  /\ stored =>
                    LET at == getVisemeAtTime(visemeCuesRef.cues, currentTime)
                    IN  /\ currentViseme' = at.viseme
                        /\ jawRotation' =
                              SmoothJaw(previousJawRotationRef,
                                        getInterpolatedJawRotation(
                                            at.viseme, at.nextViseme,
                                            at.progress))
                        /\ previousJawRotationRef' = jawRotation'
                        /\ mouthOpenness' = JawOpenness(jawRotation')
              /\ ~stored =>
                    /\ mouthOpenness' = AmplitudeOpenness(amplitude')
                    /\ currentViseme' = opennessToViseme(mouthOpenness')
                    /\ jawRotation' = VISEME_JAW_ROTATION(currentViseme')
                    /\ mouthShape' = getMouthShapeFromAmplitude(amplitude')
                    /\ previousJawRotationRef' = previousJawRotationRef
              /\ amplitude' = smoothedAmplitudeRef'
              /\ playbackTime' = currentTime
              /\ lipFrameRef' = (IF isPlayingRef THEN "requested" ELSE "none")
         ]_vars

\* the fallback sample of an utterance whose event sequence is empty
C18_Witness ==
    /\ lastOp.op = "analyzeAudio"
    /\ ~visemeCuesRef.null
    /\ visemeCuesRef.cues = <<>>
    /\ currentViseme # "sil"
    /\ lipFrameRef = "requested"

C18_WitnessPrecise ==
    /\ lastOp.op = "analyzeAudio"
    /\ UsePrecise(visemeCuesRef)
    /\ playbackTime > 0
    /\ jawRotation > 0

C18_WitnessNull ==
    /\ lastOp.op = "analyzeAudio"
    /\ visemeCuesRef.null
    /\ isPlaying
    /\ currentViseme # "sil"

\* the step is a frame of updateGesture that finds a gesture active
GestureFrame ==
    /\ gestureFrameRef = "due"
    /\ lastOp'.op = "updateGesture"
    /\ activeGesture # NoGesture
    /\ gestureStartTimeRef # Undef

\* C19: at a frame of the gesture loop at time now, a gesture that started at s
\* with duration d stays active with progress (now - s) / d when now < s + d,
\* and is no longer the running gesture when now >= s + d (no gesture is
\* active, or the head of the queue starts at now with progress 0), whatever
\* the number of frames since s
C19_ElapsedTimeOnly ==
    [][GestureFrame =>
          LET s == gestureStartTimeRef
              d == activeGesture.duration
          IN  IF now < s + d
              THEN /\ activeGesture' = activeGesture
                   /\ gestureStartTimeRef' = s
                   /\ gestureProgress'.num * d = (now - s) * gestureProgress'.den
                   /\ gestureQueueRef' = gestureQueueRef
              ELSE /\ gestureProgress' = Zero
                   /\ gestureStartTimeRef' # s
                   /\ \/ activeGesture' = NoGesture /\ gestureQueueRef = <<>>
                      \/ /\ gestureQueueRef # <<>>
                         /\ activeGesture' = Head(gestureQueueRef)
                         /\ gestureStartTimeRef' = now
         ]_vars

\* a gesture two thirds through after one long frame or after two short ones
C19_Witness ==
    /\ lastOp.op = "updateGesture"
    /\ activeGesture # NoGesture
    /\ gestureStartTimeRef # Undef
    /\ now - gestureStartTimeRef >= 200
    /\ now - gestureStartTimeRef < activeGesture.duration
    /\ gestureProgress.num * activeGesture.duration
         = (now - gestureStartTimeRef) * gestureProgress.den

\* a frame has just ended a twitch gesture: none is active, the last twitch is
\* at least its duration old
C19_WitnessCompleted ==
    /\ lastOp.op = "updateGesture"
    /\ activeGesture = NoGesture
    /\ gestureStartTimeRef = Undef
    /\ lastTwitchTimeRef >= MountTime
    /\ now - lastTwitchTimeRef \in {250, 300}

\* a new utterance is starting up or playing
NewUtterance(k) ==
    \/ playPc = "decoding"
    \/ /\ sourceRef \notin {0, k}
       /\ sources[sourceRef].state = "playing"
       /\ now - sources[sourceRef].startedAt
            < sources[sourceRef].speech.audioMs

\* the step is the onended handler of a source that playAudio stopped before
\* its audio was over, run while the new utterance starts up or plays
SupersededSourceEnds ==
    /\ lastOp'.op = "onended"
    /\ ~playLog.stopped /\ ~playLog.restarted
    /\ \E k \in 1..Len(sources) :
          /\ sources[k].state = "stopped"
          /\ sources'[k].state = "ended"
          /\ now - sources[k].startedAt < sources[k].speech.audioMs
          /\ NewUtterance(k)

\* C20 as stated: the onended handler of the superseded source leaves the new
\* utterance alone: its event sequence and gesture triggers stay in place,
\* isPlaying stays as it was and the sampling loop keeps its frame
C20_Original ==
    [][SupersededSourceEnds =>
          /\ visemeCuesRef' = visemeCuesRef
          /\ gestureTriggers' = gestureTriggers
          /\ isPlaying' = isPlaying
          /\ isPlayingRef' = isPlayingRef
          /\ lipFrameRef' = lipFrameRef]_vars

C13_WitnessIdle ==
    /\ lastOp.op \in {"onended", "stopAudio"}
    /\ firedLog # <<>>
    /\ animationState = "idle"
-----------------------------------------------------------------------------
(* Two requests in one effect run, and the queue of an idle machine *)

\* the step makes two valid requests while the rendered machine is idle
TwoRequestsWhileIdle ==
    activeGesture = NoGesture /\ Len(ValidCalls(lastOp')) = 2

\* C21 as stated: when queueGesture is called twice before the first call's
\* state update is visible, with no gesture active, the first request is
\* active afterwards and the second is in the queue, or the second is active
\* having preempted the first by strictly higher priority
C21_Original ==
    [][TwoRequestsWhileIdle =>
          LET first == ValidCalls(lastOp')[1]
              second == ValidCalls(lastOp')[2]
          IN  \/ /\ activeGesture' = GestureOf(first)
                 /\ gestureQueueRef' = Append(gestureQueueRef, GestureOf(second))
              \/ /\ activeGesture' = GestureOf(second)
                 /\ GESTURE_LIBRARY(second.type).priority
                      > GESTURE_LIBRARY(first.type).priority
         ]_vars

Waiting(g) == \E i \in 1..Len(gestureQueueRef) : gestureQueueRef[i] = g

LiveGestures == {GestureOf(call) : call \in LiveRequests}

-----------------------------------------------------------------------------
(* Further properties of the sampler and of the builder's output *)

\* the cues that start after time t
StartingAfter(t) ==
    {i \in 1..Len(filledCues) : filledCues[i].startTime > t}

\* the category of the earliest cue starting after t, null if there is none
FollowingCategory(t) ==
    IF StartingAfter(t) = {} THEN Null
    ELSE filledCues[Min(StartingAfter(t))].viseme

\* C24 as stated, for inputs with valid timing in which no span starts before
\* the end of the span before it: for a time inside cue i the next category
\* is that of cue i + 1, null for the last cue; for a time inside no cue it
\* is the category of the earliest cue starting after it, and a time before
\* the first cue samples as silence with progress 1
C24_Original ==
    (Sampled /\ AllValid /\ InputOrdered /\ filledCues # <<>>) =>
        LET t == sampled.time
            r == sampled.result
            in == Containing(t)
        IN  /\ in # {} =>
                  r.nextViseme = (IF Min(in) < Len(filledCues)
                                  THEN filledCues[Min(in) + 1].viseme
                                  ELSE Null)
            /\ in = {} => r.nextViseme = FollowingCategory(t)
            /\ t < filledCues[1].startTime =>
                  r = VisemeSample("sil", One, filledCues[1].viseme)

\* the categories of the timeline, in order
Categories == [i \in 1..Len(filledCues) |-> filledCues[i].viseme]

C26_Original ==
    (Built /\ AllValid /\ InputOrdered) =>
        \A i \in Pairs(filledCues) :
            ~ /\ filledCues[i].viseme = filledCues[i + 1].viseme
              /\ Abs(filledCues[i + 1].startTime - filledCues[i].endTime)
                   < MERGE_GAP_MS

\* the valid input spans are ordered by start time
StartOrdered ==
    \A i \in 1..(Len(InRaw) - 1) : InRaw[i + 1].startTime >= InRaw[i].startTime

\* C27: for an input ordered by start time with non-negative times, every cue
\* of the output starts at or after 0 and ends after it starts
C27_CuesWellFormed ==
    (Built /\ StartOrdered) =>
        \A i \in 1..Len(filledCues) :
            /\ filledCues[i].startTime >= 0
            /\ filledCues[i].endTime > filledCues[i].startTime

\* a timeline with a merged cue whose end the later span pulled back, followed
\* by an inserted silence
C27_Witness ==
    /\ Built /\ StartOrdered
    /\ Len(InRaw) = 3 /\ Len(InMerged) = 2
    /\ InRaw[2].startTime < InRaw[1].endTime
    /\ InMerged[1].endTime < InRaw[1].endTime
    /\ Len(filledCues) = 3
    /\ filledCues[2].viseme = "sil"

\* a timeline that starts with a prepended silence
C27_WitnessPrepended ==
    /\ Built /\ StartOrdered
    /\ Len(filledCues) >= 2
    /\ filledCues[1].viseme = "sil"
    /\ filledCues[1].endTime = InRaw[1].startTime
    /\ InRaw[1].startTime > 0

Searched == tpc = "searched"

\* the timeline is ordered by start time and no cue starts before the end of
\* the cue before it
TimelineOrdered ==
    \A i \in Pairs(filledCues) :
        /\ filledCues[i + 1].startTime >= filledCues[i].startTime
        /\ filledCues[i + 1].startTime >= filledCues[i].endTime

\* C28: on a timeline ordered by start time without overlap, findCueIndexAtTime
\* returns the index (from 0) that the linear scan of getVisemeAtTime stops
\* at: the index of the cue with start <= t < end when there is one, and -1
\* exactly when no cue contains t; its loop body runs at most once per cue
C28_BinarySearchAgrees ==
    (Searched /\ TimelineOrdered) =>
        LET t == probe.time
            index == probe.found.index
        IN  /\ index = FindCueFrom(filledCues, t, 1) - 1
            /\ index >= 0 =>
                  /\ index < Len(filledCues)
                  /\ t >= filledCues[index + 1].startTime
                  /\ t < filledCues[index + 1].endTime
            /\ (index = 0 - 1) <=> (Containing(t) = {})
            /\ probe.found.iterations <= Len(filledCues)

\* the search found the last of at least four cues, after looking at others
C28_Witness ==
    /\ Searched /\ TimelineOrdered
    /\ Len(filledCues) >= 4
    /\ probe.found.index = Len(filledCues) - 1
    /\ probe.found.iterations >= 2

\* the search ended without a cue for a time in a gap of the timeline
C28_WitnessGap ==
    /\ Searched /\ TimelineOrdered
    /\ probe.found.index = 0 - 1
    /\ probe.time > 0
    /\ probe.time < getTimelineDuration(filledCues)

-----------------------------------------------------------------------------
(* Ranges of the published mouth values *)

\* the largest value of VISEME_JAW_ROTATION
WidestJaw == VISEME_JAW_ROTATION("aa")

\* v lies between a and b, in either order
Between(v, a, b) == (a <= v /\ v <= b) \/ (b <= v /\ v <= a)

-----------------------------------------------------------------------------
(* The keyframes chosen for a progress through a gesture *)

RotationsProbe == probe.op = "rotations"

\* the pairs of consecutive keyframes, counted from 0, containing the progress
MatchingPairs ==
    {i \in 0..(Len(probe.times) - 2) :
        /\ AtLeast(probe.progress, probe.times[i + 1])
        /\ AtMost(probe.progress, probe.times[i + 2])}

\* C30: getGestureRotations uses the first pair of consecutive keyframes, in
\* list order, with kf_i.time <= progress <= kf_i+1.time, and the first and the
\* last keyframe when there is none; the local progress is
\* (progress - kf1.time) / (kf2.time - kf1.time), and 0 when the interval
\* between the two has no positive length
C30_FirstMatchingPair ==
    (RotationsProbe /\ probe.times # <<>>) =>
        LET r == probe.result
            t1 == probe.times[r.kf1 + 1]
            t2 == probe.times[r.kf2 + 1]
        IN  /\ ~r.threw
            /\ IF MatchingPairs = {}
               THEN r.kf1 = 0 /\ r.kf2 = Len(probe.times) - 1
               ELSE /\ r.kf1 \in MatchingPairs
                    /\ \A i \in MatchingPairs : r.kf1 <= i
                    /\ r.kf2 = r.kf1 + 1
            /\ r.localProgress.den > 0
            /\ IF t2 <= t1 THEN r.localProgress.num = 0
               ELSE r.localProgress.num * probe.progress.den * (t2 - t1) =
                    r.localProgress.den *
                        (100 * probe.progress.num - probe.progress.den * t1)

\* a progress equal to the time of an interior keyframe: two pairs contain it
\* and the earlier one is used, at its end
C30_Witness ==
    /\ RotationsProbe
    /\ Cardinality(MatchingPairs) = 2
    /\ probe.result.kf1 + 1 \in MatchingPairs
    /\ probe.result.localProgress.num = probe.result.localProgress.den

\* a progress before the first of three or more keyframes: the first and the
\* last are used
C30_WitnessFallback ==
    /\ RotationsProbe
    /\ Len(probe.times) > 2
    /\ MatchingPairs = {}
    /\ probe.result.kf1 = 0 /\ probe.result.kf2 = Len(probe.times) - 1

\* the first two keyframes at one time, and the progress at that time
C30_WitnessDegenerate ==
    /\ RotationsProbe
    /\ ~probe.result.threw
    /\ probe.result.kf2 = probe.result.kf1 + 1
    /\ probe.times[probe.result.kf1 + 1] = probe.times[probe.result.kf2 + 1]
    /\ probe.result.localProgress.num = 0

-----------------------------------------------------------------------------
(* The rotations between two keyframes *)

KeyframesProbe == probe.op = "keyframes"

\* the keyframe names the bone and sets the axis
Sets(kf, bone, axis) ==
    bone \in BonesOf(kf) /\ axis \in DOMAIN FindRotation(kf, bone)

\* the value of an axis the keyframe sets, in units of 0.01
ValueIn(kf, bone, axis) == FindRotation(kf, bone)[axis]

\* v * intensity, the intensity in units of 0.001
Scaled(v, intensity) == Times(v, Frac(intensity, 1000))

\* C31: the result names exactly the bones of the two keyframes; an axis set in
\* both is v1 + (v2 - v1) * eased(localProgress), an axis set in one only
\* has that keyframe's value, an axis set in neither is absent; every axis of
\* the result is multiplied by the intensity of the active gesture
C31_AxesInterpolated ==
    KeyframesProbe =>
        /\ DOMAIN probe.rotations = BonesOf(probe.kf1) \cup BonesOf(probe.kf2)
        /\ \A bone \in DOMAIN probe.rotations : \A axis \in Axes :
              LET in1 == Sets(probe.kf1, bone, axis)
                  in2 == Sets(probe.kf2, bone, axis)
                  v1 == ValueIn(probe.kf1, bone, axis)
                  v2 == ValueIn(probe.kf2, bone, axis)
                  eased == easeInOut(probe.localProgress)
              IN  IF ~in1 /\ ~in2 THEN axis \notin DOMAIN probe.rotations[bone]
                  ELSE /\ axis \in DOMAIN probe.rotations[bone]
                       /\ probe.rotations[bone][axis] =
                             Scaled(IF in1 /\ in2
                                    THEN Plus(Whole(v1),
                                              Times(Whole(v2 - v1), eased))
                                    ELSE IF in1 THEN Whole(v1) ELSE Whole(v2),
                                    probe.intensity)

\* a library gesture at intensity 1.5, strictly between two keyframes of which
\* only the second sets an axis of a bone both name: that axis has the second
\* keyframe's value times 1.5
C31_Witness ==
    /\ KeyframesProbe
    /\ probe.intensity = 1500
    /\ probe.localProgress.num > 0
    /\ probe.localProgress.num < probe.localProgress.den
    /\ \E bone \in DOMAIN probe.rotations : \E axis \in Axes :
          /\ bone \in BonesOf(probe.kf1)
          /\ ~Sets(probe.kf1, bone, axis)
          /\ Sets(probe.kf2, bone, axis)
          /\ ValueIn(probe.kf2, bone, axis) # 0
          /\ 2 * probe.rotations[bone][axis].num =
                3 * ValueIn(probe.kf2, bone, axis)
                  * probe.rotations[bone][axis].den

\* an axis set in both keyframes with different values, at an eased progress
\* strictly inside the interval
C31_WitnessBlended ==
    /\ KeyframesProbe
    /\ probe.localProgress.num > 0
    /\ probe.localProgress.num < probe.localProgress.den
    /\ \E bone \in DOMAIN probe.rotations : \E axis \in Axes :
          /\ Sets(probe.kf1, bone, axis) /\ Sets(probe.kf2, bone, axis)
          /\ ValueIn(probe.kf1, bone, axis) # ValueIn(probe.kf2, bone, axis)
          /\ probe.rotations[bone][axis].den > 1

\* a bone that only the second keyframe names
C31_WitnessOneKeyframe ==
    /\ KeyframesProbe
    /\ \E bone \in DOMAIN probe.rotations :
          bone \notin BonesOf(probe.kf1) /\ bone \in BonesOf(probe.kf2)

-----------------------------------------------------------------------------
(* Triggers are consumed when their window is entered *)

Passed(fire) == fire.passed

\* queueGesture and triggerRandomTwitch called from outside the hook
OutsideCall(op) == op \in {"queueGesture", "triggerRandomTwitch"}

CandidateSet(triggerType) ==
    {GestureCandidates(triggerType)[i] :
        i \in 1..Len(GestureCandidates(triggerType))}

\* C32: in every step, each trigger whose window is entered is in the dedup
\* set afterwards, whether its draw passed the gate or not, and no trigger is
\* entered twice in an utterance; the requests of the step are those of the
\* entered triggers whose draw passed, in order, each of a type among the
\* candidates of the trigger's kind, with intensity 1.0, or the preset's
\* exclamationIntensity for an exclaim trigger
C32_ConsumedBeforeGate ==
    [][~OutsideCall(lastOp'.op) =>
        LET fired == lastOp'.fired
            passing == SelectSeq(fired, Passed)
        IN  /\ \A k \in 1..Len(fired) :
                  fired[k].trigger.time \in processedTriggersRef'
            /\ \A i, j \in 1..Len(firedLog') :
                  firedLog'[i].index = firedLog'[j].index => i = j
            /\ Len(lastOp'.calls) = Len(passing)
            /\ \A k \in 1..Len(passing) :
                  /\ lastOp'.calls[k].type
                        \in CandidateSet(passing[k].trigger.type)
                  /\ lastOp'.calls[k].intensity =
                        IF passing[k].trigger.type = "exclaim"
                        THEN preset'.exclamationIntensity
                        ELSE 1000
      ]_vars

\* a frame of the utterance with playback still inside the window of a trigger
\* whose draw failed: nothing is entered, nothing is requested, no gesture runs
C32_Witness ==
    /\ lastOp.op = "analyzeAudio"
    /\ isPlaying
    /\ lastOp.fired = <<>> /\ lastOp.calls = <<>>
    /\ activeGesture = NoGesture
    /\ \E i \in 1..Len(firedLog) :
          /\ ~firedLog[i].passed
          /\ InWindow(playbackTime, firedLog[i].trigger.time)
          /\ firedLog[i].index \in 1..Len(gestureTriggers)
          /\ gestureTriggers[firedLog[i].index] = firedLog[i].trigger
          /\ firedLog[i].trigger.time \in processedTriggersRef

\* an exclaim trigger passing the gate under a preset whose
\* exclamationIntensity is not 1.0
C32_WitnessExclaim ==
    /\ Len(lastOp.fired) = 1 /\ Len(lastOp.calls) = 1
    /\ lastOp.fired[1].passed
    /\ lastOp.fired[1].trigger.type = "exclaim"
    /\ lastOp.calls[1].intensity = 1500

-----------------------------------------------------------------------------
(* The dedup set of a new utterance *)

\* the trigger times entered since the utterance was handed to playAudio
ConsumedThisUtterance ==
    {firedLog[i].trigger.time : i \in 1..Len(firedLog)}

\* C33 as stated: the dedup set holds only trigger times consumed in the
\* current utterance; an utterance starts with an empty set, also when
\* playAudio is called while the utterance before is still playing
C33_Original == processedTriggersRef \subseteq ConsumedThisUtterance

\* a frame of a later utterance inside the window of one of its triggers, which
\* is not entered because its time was consumed in the utterance before
C33_Suppressed ==
    /\ lastOp.op = "analyzeAudio"
    /\ isPlaying
    /\ \E i \in 1..Len(gestureTriggers) :
          /\ InWindow(playbackTime, gestureTriggers[i].time)
          /\ gestureTriggers[i].time \in processedTriggersRef
          /\ gestureTriggers[i].time \notin ConsumedThisUtterance

-----------------------------------------------------------------------------
(* Range of the published gesture progress *)

\* C34 as stated: the published gesture progress is within [0, 1] in every
\* state, whatever the frame's timestamp is relative to the recorded start
\* time, and it is 0 whenever no gesture is active
C34_Original ==
    /\ 0 <= gestureProgress.num
    /\ gestureProgress.num <= gestureProgress.den
    /\ activeGesture = NoGesture => gestureProgress.num = 0

-----------------------------------------------------------------------------
(* Gestures marked not interruptible *)

\* the active gesture's definition has canInterrupt false
Uninterruptible ==
    /\ activeGesture.type \in GestureTypes
    /\ ~GESTURE_LIBRARY(activeGesture.type).canInterrupt

\* C35: while a gesture marked not interruptible is active, a step leaves the
\* active gesture and its start time as they are, unless it is the frame of
\* the gesture loop at which the gesture's progress reaches 1
C35_NeverPreempted ==
    [][Uninterruptible =>
          \/ /\ activeGesture' = activeGesture
             /\ gestureStartTimeRef' = gestureStartTimeRef
          \/ /\ lastOp'.op = "updateGesture"
             /\ now - gestureStartTimeRef >= activeGesture.duration
      ]_vars

\* pointLeft, of the highest priority below armFlailBoth's, requested while
\* armFlailBoth is running: it waits in the queue
C35_Witness ==
    /\ lastOp.op = "queueGesture"
    /\ lastOp.calls = <<GestureCall("pointLeft", 1500)>>
    /\ activeGesture.type = "armFlailBoth"
    /\ gestureStartTimeRef < now
    /\ gestureQueueRef = <<Gesture("pointLeft", 1500)>>

-----------------------------------------------------------------------------
(* What a call of queueGesture leaves alone *)

\* a step that is one call of queueGesture from outside the hook
QueueGestureStep == lastOp'.op = "queueGesture"

\* C36: a call of queueGesture that makes the requested gesture the active one
\* (nothing was active, or it preempts) leaves the queue as it was; a call
\* that appends to the queue leaves the active gesture, its start time and
\* its progress as they were; a call changes the dedup set, the coarse
\* animation state and the last-twitch time in no case
C36_QueueGestureFrame ==
    [][QueueGestureStep =>
          LET call == lastOp'.calls[1]
              known == call.type \in GestureTypes
              starts == \/ activeGesture = NoGesture
                        \/ GESTURE_LIBRARY(call.type).priority
                              > PriorityOf(activeGesture)
          IN  /\ (known /\ starts) => gestureQueueRef' = gestureQueueRef
              /\ (known /\ ~starts) =>
                    /\ gestureQueueRef' # gestureQueueRef
                    /\ activeGesture' = activeGesture
                    /\ gestureStartTimeRef' = gestureStartTimeRef
                    /\ gestureProgress' = gestureProgress
              /\ processedTriggersRef' = processedTriggersRef
              /\ animationState' = animationState
              /\ lastTwitchTimeRef' = lastTwitchTimeRef
      ]_vars

\* a request that preempted the active gesture while another one was waiting:
\* the one waiting is still the whole queue
C36_Witness ==
    /\ lastOp.op = "queueGesture"
    /\ lastOp.calls[1].type \in GestureTypes
    /\ activeGesture = Gesture(lastOp.calls[1].type, lastOp.calls[1].intensity)
    /\ gestureStartTimeRef = now
    /\ Len(gestureQueueRef) = 1
    /\ PriorityOf(gestureQueueRef[1]) < PriorityOf(activeGesture)
    /\ processedTriggersRef # {}

\* a request appended to the queue while a gesture is half way
C36_WitnessAppended ==
    /\ lastOp.op = "queueGesture"
    /\ lastOp.calls[1].type \in GestureTypes
    /\ gestureQueueRef = <<Gesture(lastOp.calls[1].type,
                                   lastOp.calls[1].intensity)>>
    /\ gestureProgress.num > 0
    /\ gestureStartTimeRef < now
    /\ activeGesture # NoGesture

-----------------------------------------------------------------------------
(* Twitches under the initial preset *)

\* C37: the machine starts with the Calm Friendly preset, whose
\* twitchFrequency is 0, and while that is the preset a call of
\* triggerRandomTwitch requests nothing and leaves the active gesture, its
\* start time, the queue and the last-twitch time as they were
C37_NoTwitchWhenCalm ==
    /\ preset = CALM_FRIENDLY_PRESET
    /\ CALM_FRIENDLY_PRESET.twitchFrequency = 0
    /\ [][(lastOp'.op = "triggerRandomTwitch" /\ preset = CALM_FRIENDLY_PRESET) =>
            /\ lastOp'.calls = <<>>
            /\ activeGesture' = activeGesture
            /\ gestureStartTimeRef' = gestureStartTimeRef
            /\ gestureQueueRef' = gestureQueueRef
            /\ lastTwitchTimeRef' = lastTwitchTimeRef
         ]_vars

\* a call under the Calm Friendly preset set again after another preset had let
\* a twitch through, more than a second after that twitch
C37_Witness ==
    /\ lastOp.op = "triggerRandomTwitch"
    /\ lastOp.calls = <<>>
    /\ preset = CALM_FRIENDLY_PRESET
    /\ lastTwitchTimeRef >= MountTime
    /\ now - lastTwitchTimeRef > 1000

\* a call under the preset of the start, the last-twitch time still 0
C37_WitnessInitial ==
    /\ lastOp.op = "triggerRandomTwitch"
    /\ lastOp.calls = <<>>
    /\ preset = CALM_FRIENDLY_PRESET
    /\ lastTwitchTimeRef = 0
    /\ activeGesture = NoGesture

-----------------------------------------------------------------------------
(* The noise helpers *)

\* f <= g and f < g for fractions with positive denominators
AtMostFrac(f, g) == f.num * g.den <= g.num * f.den

BelowFrac(f, g) == f.num * g.den < g.num * f.den

InUnitInterval(f) == AtMostFrac(Frac(0, 1), f) /\ BelowFrac(f, One)

\* noise is a function of its arguments, equals hash(x) at an integer x, and
\* lies between hash(floor x) and hash(floor x + 1), so in [0, 1)
NoiseBounded ==
    probe.op = "noise" =>
        LET lower == hash(Floor(probe.x), probe.seed)
            upper == hash(Floor(probe.x) + 1, probe.seed)
        IN  /\ probe.value = noise(probe.x, probe.seed)
            /\ probe.x.num % probe.x.den = 0 => probe.value = Reduce(lower)
            /\ \/ AtMostFrac(lower, probe.value) /\ AtMostFrac(probe.value, upper)
               \/ AtMostFrac(upper, probe.value) /\ AtMostFrac(probe.value, lower)
            /\ InUnitInterval(probe.value)

\* fbmNoise with persistence > 0 and at least one octave lies in [0, 1)
FbmBounded ==
    (probe.op = "fbmNoise" /\ probe.octaves >= 1 /\ probe.persistence.num > 0)
        => InUnitInterval(probe.value)

\* C38 as stated: noise is deterministic, equals hash(x) at every integer x and
\* lies between hash(floor x) and hash(floor x + 1), so in [0, 1); fbmNoise
\* with persistence > 0 and at least one octave lies in [0, 1);
\* getRandomImpulse returns 0 whenever the noise value is at most 0.8 and
\* otherwise a value in (0, 1], that is Math.exp of an exponent <= 0
C38_Original ==
    /\ NoiseBounded
    /\ FbmBounded
    /\ probe.op = "impulse" =>
          IF AboveThreshold(probe.impulseNoise)
          THEN /\ probe.value.kind = "exp"
               /\ probe.value.exponent.num <= 0
          ELSE probe.value.kind = "zero"

\* with a frequency above 0 and a decay of 0 or more, getRandomImpulse returns 0
\* at a noise value of at most 0.8 and Math.exp of an exponent <= 0 above it
ImpulseBounded ==
    (probe.op = "impulse" /\ probe.frequency > 0 /\ probe.decay.num >= 0) =>
        IF AboveThreshold(probe.impulseNoise)
        THEN probe.value.kind = "exp" /\ probe.value.exponent.num <= 0
        ELSE probe.value.kind = "zero"

-----------------------------------------------------------------------------
(* The gesture library as a table *)

\* the bones of a keyframe with the axes each sets
PoseOf(kf) == [bone \in BonesOf(kf) |-> FindRotation(kf, bone)]

\* at least two keyframes, times strictly increasing from 0 to 1, a duration
\* above 0, a priority in 1..3, and a last keyframe with the bones and values
\* of the first
LibraryWellFormed ==
    \A type \in GestureTypes :
        LET times == KeyframeTimes(type)
            keyframes == KeyframesOf(type)
        IN  /\ Len(times) >= 2
            /\ Len(KeyframeRotations(type)) = Len(times)
            /\ \A i \in 1..(Len(times) - 1) : times[i] < times[i + 1]
            /\ times[1] = 0 /\ times[Len(times)] = 100
            /\ GESTURE_LIBRARY(type).duration > 0
            /\ GESTURE_LIBRARY(type).priority \in 1..3
            /\ PoseOf(keyframes[Len(keyframes)]) = PoseOf(keyframes[1])

\* the rotations of a library gesture at progress 1 are those at progress 0
EndsWhereItStarted ==
    (/\ KeyframesProbe
     /\ probe.type \in GestureTypes
     /\ probe.progress.num = probe.progress.den) =>
        probe.rotations =
            getCurrentGestureRotations(Gesture(probe.type, probe.intensity),
                                       Zero).rotations

\* C39 as stated: every gesture of the library is well formed (two keyframes
\* or more, times strictly increasing from 0 to 1, duration > 0, priority in
\* 1..3, last keyframe equal to the first), so that a completed gesture ends
\* in the pose it started from
C39_Original == LibraryWellFormed /\ EndsWhereItStarted

====
